---- MODULE Spec2Model ----
(***************************************************************************)
(* A model of the PFSD client SDK (pfsd_sdk.cc, pfsd_sdk_mount.cc,         *)
(* pfsd_sdk_file.cc): the mount registry and its fence-file locks, the     *)
(* fd-bound file state, and the chunked read / write / lseek protocol.     *)
(***************************************************************************)
EXTENDS Integers, Sequences, FiniteSets, TLC

(***************************************************************************)
(* Bounds of the model.                                                    *)
(***************************************************************************)
\* host ids range over 0..MaxHostId
MaxHostId == 1
\* number of meta-lock attempts of pfs_mount_prepare; the code makes
\* MOUNT_PREPARE_TIMEOUT_MS / 10 + 1 of them, 10 ms apart
MetaLockAttempts == 2
\* slots of the fd table (PFSD_MAX_NFD)
MaxNfd == 3
\* bytes one request carries at most (PFSD_MAX_IOSIZE)
MaxIoSize == 2
\* the longest buffer a caller passes
MaxLen == 3
\* bytes the daemon's file holds at most
MaxDisk == 4
\* write and pwrite calls whose bytes are told apart on the disk
MaxCalls == 2
\* width of off_t in bits, sign included
OffBits == 4
\* times the daemon answers ESTALE to the requests of one call
MaxStale == 1
\* times the daemon answers ESTALE to the requests of one call where the
\* staleness loop itself is looked at
MaxRetries == 2
\* times an operation of the engine ends with -EAGAIN within one call
MaxAgain == 2
\* entries of the directory that is read
MaxDir == 3
\* calls of pfsd_start that get past its checks
MaxStarts == 2
\* the value of g_pfsd_main_sem at most: further posts leave it
MaxSem == 2
\* PFSD_WORKER_MAX
MaxWorkers == 2
\* characters of the longest path a caller passes
MaxPathChars == 7
\* PFS_MAX_PATHLEN and PFS_MAX_NAMELEN, in characters, the final 0 included
MaxPathLen == 10
MaxNameLen == 3
\* entries the daemon packs into one answer to READDIR at most
\* (PFSD_DIRENT_BUFFER_SIZE / sizeof(struct dirent))
MaxPage == 2
\* pages without an entry answered to one DIR
MaxEmpty == 2

(***************************************************************************)
(* Program constants.                                                      *)
(***************************************************************************)
FLK_LEN == 1024
\* the code only needs DEFAULT_MAX_HOSTS to lie above every host id
DEFAULT_MAX_HOSTS == MaxHostId
PFSD_MAX_NFD == MaxNfd
PFSD_MAX_IOSIZE == MaxIoSize
PFS_MAX_PATHLEN == MaxPathLen
PFSD_WORKER_MAX == MaxWorkers
PFS_MAX_NAMELEN == MaxNameLen
\* offset is current file position
OFFSET_FILE_POS == -1
\* offset is file size
OFFSET_FILE_SIZE == -2
\* the largest and the smallest off_t
OFF_MAX == 2 ^ (OffBits - 1) - 1
OFF_MIN == -(2 ^ (OffBits - 1))

Procs == {"p1", "p2"}
Threads == {"a1", "a2", "b1"}
ProcOf(t) == IF t \in {"a1", "a2"} THEN "p1" ELSE "p2"
\* the names pfsd_mount is called with; pfs_mount_prepare takes the empty one
PBDs == {"", "A", "B"}
\* a name of PFS_MAX_PBDLEN characters or more
LongPbd == "long"
\* strlen(pbdname) >= PFS_MAX_PBDLEN in pfs_mount_prepare
PbdNameTooLong(pbdname) == pbdname = LongPbd
HostIds == 0..MaxHostId
\* MNTFLG_RD, MNTFLG_WR, MNTFLG_TOOL as a set of flag names
FlagSets == {{"RD"}, {"RD", "WR"}, {"RD", "WR", "TOOL"}}

NoThread == "none"
NoFile == "nofile"
NoRec == 0
\* the heap of mountargs records; large enough never to run out
RecIds == 1..(Cardinality(Threads) + Cardinality(PBDs))
\* descriptors open() returns on fence files: the number is of no concern to
\* the program, a descriptor is named after the record and the field
\* (meta_lock_fd, hostid_lock_fd) it is opened for
KFds == {2 * r + k : r \in RecIds, k \in {0, 1}}
MetaFd(r) == 2 * r
HostidFd(r) == 2 * r + 1

\* the heap of pfsd_file_t objects; a pointer to file i is the even number
\* 2 * i, as malloc returns aligned addresses
FileIds == 1..(MaxNfd + 1)
NoFileId == 0

\* the globals of pfsd_main.cc before pfsd_start is called, no thread of the
\* daemon running; starts is recorded for the properties and up tells
\* whether the last pfsd_start that returned 0 has been followed by a
\* pfsd_wait_stop that returned 0
NoDaemon == [g_pfsd_started |-> 0, g_pfsd_stop |-> FALSE, g_pfsd_pidfile |-> -1,
             g_pfsd_main_sem |-> 0, main |-> "none", worker |-> "none",
             starts |-> 0, up |-> FALSE]

VARIABLES
    cfg,          \* the calls each thread makes and the arguments it draws
    pfsd,         \* the embedded daemon: its globals, its main thread, its worker
    work_dir,     \* per process: the PBD of the working directory, "" if unset
    s_inited,     \* per process: pfsd_sdk_init has run
    pfs_init_mtx, \* per process: the thread holding the registry mutex
    mount_list,   \* per process: the registry, a list of record ids
    inprogress,   \* per process: records between prepare and register
    recs,         \* the mountargs records
    kfd,          \* per process: descriptor -> fence file it is open on
    flk,          \* per process, per fence file: byte ranges write-locked
    th,           \* per thread: the call it is in and its locals
    fdtbl,           \* per process: the fd table
    fdtbl_free_last, \* per process: head of the free list threaded through it
    fdtbl_nopen,     \* per process: number of slots handed out
    hist,            \* per process: the slots freed and still free, oldest
                     \* first, the most files open at once, whether the
                     \* process is a forked child and the descriptors its
                     \* parent had open; read by no code
    fdtbl_mtx,       \* per process: the thread holding the table mutex
    files,        \* the pfsd_file_t objects
    disk,         \* the daemon: the bytes of the file, each tagged by its origin
    ncalls        \* write and pwrite calls made so far

regVars == <<cfg, pfsd, work_dir, s_inited, pfs_init_mtx, mount_list, inprogress, recs, kfd, flk>>
fileVars == <<fdtbl, fdtbl_free_last, fdtbl_nopen, hist, fdtbl_mtx, files>>
ioVars == <<fileVars, disk, ncalls>>
mountVars == <<regVars, ioVars>>
vars == <<regVars, th, ioVars>>

(***************************************************************************)
(* mountargs                                                               *)
(***************************************************************************)
\* a record that is not allocated
FreeRec == [live |-> FALSE, proc |-> "p1", pbd_name |-> "", host_id |-> -1,
            flags |-> {}, mflags |-> {}, conn_id |-> -1, hostid_lock_fd |-> -1,
            meta_lock_fd |-> -1, on_list |-> FALSE, ref_count |-> 0,
            wr |-> NoThread, rd |-> {}]

pfs_mountargs_alloc(p) ==
    [FreeRec EXCEPT !.live = TRUE, !.proc = p]

\* the record malloc hands out: the lowest free slot of the heap
NewRec == CHOOSE r \in RecIds : ~recs[r].live /\ \A q \in RecIds : q < r => recs[q].live

pfs_mountargs_free(rs, r) == [rs EXCEPT ![r] = FreeRec]

SeqToSet(s) == {s[i] : i \in 1..Len(s)}
RemoveFromSeq(s, x) == SelectSeq(s, LAMBDA y : y # x)

pfs_mountargs_exists_never(p, pbdname) == FALSE

pfs_mountargs_exists(p, pbdname) ==
    \E r \in SeqToSet(mount_list[p]) : recs[r].pbd_name = pbdname

pfs_mountargs_inprogress(p, pbdname) ==
    \E r \in inprogress[p] : recs[r].pbd_name = pbdname

pfs_mountargs_add_inprogress(ip, p, r) == [ip EXCEPT ![p] = @ \cup {r}]

pfs_mountargs_remove_inprogress(ip, p, r) == [ip EXCEPT ![p] = @ \ {r}]

ListLookup_first(p, pbdname) ==
    IF mount_list[p] = <<>> THEN NoRec ELSE mount_list[p][1]

\* the first record of the list with that name, NoRec when there is none
ListLookup(p, pbdname) ==
    LET l == mount_list[p]
        hits == {i \in 1..Len(l) : recs[l[i]].pbd_name = pbdname}
    IN IF hits = {} THEN NoRec
       ELSE l[CHOOSE i \in hits : \A j \in hits : i <= j]

\* no mount of process p goes by the name pbdname
Unregistered(p, pbdname) ==
    \A i \in 1..Len(mount_list[p]) : recs[mount_list[p][i]].pbd_name # pbdname

(***************************************************************************)
(* Fence-file locks: fcntl(F_SETLK) record locks are owned by the process  *)
(* and all of a process's locks on a file go when it closes any            *)
(* descriptor of that file.                                                *)
(***************************************************************************)
FileEnd == (DEFAULT_MAX_HOSTS + 4) * FLK_LEN

\* l_start and l_len of the lock of host N; l_len 0 locks to the end of file
Range(hostid) ==
    [start |-> hostid * FLK_LEN, len |-> IF hostid > 0 THEN FLK_LEN ELSE 0]

RangeEnd(r) == IF r.len = 0 THEN FileEnd ELSE r.start + r.len

Overlap(a, b) == a.start < RangeEnd(b) /\ b.start < RangeEnd(a)

\* no other process holds a lock that overlaps r
CanLock(f, p, pbd, r) ==
    \A q \in Procs \ {p} : \A x \in f[q][pbd] : ~Overlap(r, x)

\* close(fd): the descriptor goes and with it every lock of the process on
\* that file
KClose(k, f, p, fd) ==
    IF fd < 0 \/ k[p][fd] = NoFile
    THEN [kfd |-> k, flk |-> f]
    ELSE [kfd |-> [k EXCEPT ![p][fd] = NoFile],
          flk |-> [f EXCEPT ![p][k[p][fd]] = {}]]

\* fd: the descriptor open() returns
pfsd_paxos_hostid_local_lock(k, f, p, pbdname, hostid, fd) ==
    LET r == Range(hostid)
        opened == [k EXCEPT ![p][fd] = pbdname]
    IN IF CanLock(f, p, pbdname, r)
       THEN [fd |-> fd, errno |-> "0", kfd |-> opened,
             flk |-> [f EXCEPT ![p][pbdname] = @ \cup {r}]]
       ELSE [fd |-> -1, errno |-> "EACCES",
             kfd |-> KClose(opened, f, p, fd).kfd,
             flk |-> KClose(opened, f, p, fd).flk]

pfsd_paxos_hostid_local_unlock(k, f, p, fd) == KClose(k, f, p, fd)

(***************************************************************************)
(* The fd table and the file objects (pfsd_sdk_file.cc)                    *)
(***************************************************************************)
\* a file object that is not allocated; g_mnt, g_open, g_dead and ser are
\* recorded for the properties and read by no code
FreeFile == [live |-> FALSE, f_fd |-> -1, f_inode |-> -1, f_flags |-> {},
             f_offset |-> 0, f_conn_id |-> -1, f_mp |-> NoRec, f_refcnt |-> 0,
             wr |-> NoThread, rd |-> {}, f_lseek_lock |-> NoThread,
             g_mnt |-> NoRec, g_open |-> FALSE, g_dead |-> FALSE, ser |-> 0]

pfsd_alloc_file == [FreeFile EXCEPT !.live = TRUE]

\* the object malloc hands out: the lowest free slot of the heap
NewFile == CHOOSE f \in FileIds : ~files[f].live /\ \A q \in FileIds : q < f => files[q].live

pfsd_free_file(fs, f) == [fs EXCEPT ![f] = FreeFile]

FdOps == {"read", "pread", "write", "pwrite", "lseek", "fstat", "ftruncate",
          "fallocate"}

\* a byte no call of interest has written
Hole == [call |-> 0, op |-> "none", idx |-> 0]

\* the byte at place k of the buffer of a write or pwrite call: callers
\* either fill their buffers with bytes that tell the call and the place,
\* or all write the same byte
Tag(call, op, k) ==
    IF call = 0 THEN Hole ELSE [call |-> call, op |-> op, idx |-> k]

\* a slot holds NULL (0), a link of the free list (odd) or a file pointer
fd_to_file(tbl, fd) ==
    IF tbl[fd] = 0 \/ tbl[fd] % 2 = 1 THEN NoFileId ELSE tbl[fd] \div 2

\* (int)(((uint64_t)v) / 2) of a link v = 2 * next + 1, next >= -1: of
\* 2^64 - 1 the half is 2^63 - 1, whose low 32 bits read as an int are -1
FreeLink(v) == IF v < 0 THEN -1 ELSE v \div 2

fd_get_free_early(tbl, last, nopen, f) ==
    IF nopen < PFSD_MAX_NFD - 1
    THEN [fd |-> nopen, tbl |-> [tbl EXCEPT ![nopen] = 2 * f],
          last |-> last, nopen |-> nopen + 1]
    ELSE [fd |-> -1, tbl |-> tbl, last |-> last, nopen |-> nopen]

fd_get_free(tbl, last, nopen, f) ==
    IF last < 0
    THEN IF nopen < PFSD_MAX_NFD
         THEN [fd |-> nopen, tbl |-> [tbl EXCEPT ![nopen] = 2 * f],
               last |-> last, nopen |-> nopen + 1]
         ELSE [fd |-> -1, tbl |-> tbl, last |-> last, nopen |-> nopen]
    ELSE [fd |-> last, tbl |-> [tbl EXCEPT ![last] = 2 * f],
          last |-> FreeLink(tbl[last]), nopen |-> nopen + 1]

fd_put_free_unlinked(tbl, last, nopen, fd) ==
    [tbl |-> [tbl EXCEPT ![fd] = -1], last |-> fd, nopen |-> nopen - 1]

fd_put_free(tbl, last, nopen, fd) ==
    [tbl |-> [tbl EXCEPT ![fd] = last * 2 + 1], last |-> fd, nopen |-> nopen - 1]

pfsd_close_file_keep(p, f) ==
    [err |-> "0", tbl |-> fdtbl[p], last |-> fdtbl_free_last[p],
     nopen |-> fdtbl_nopen[p], files |-> files]

\* pfsd_close_file under fdtbl_mtx: the slot and the object go when no one
\* else holds a reference, -EAGAIN otherwise
pfsd_close_file(p, f) ==
    LET put == fd_put_free(fdtbl[p], fdtbl_free_last[p], fdtbl_nopen[p], files[f].f_fd)
    IN IF files[f].f_refcnt <= 1
       THEN [err |-> "0", tbl |-> put.tbl, last |-> put.last, nopen |-> put.nopen,
             files |-> pfsd_free_file(files, f)]
       ELSE [err |-> "EAGAIN", tbl |-> fdtbl[p], last |-> fdtbl_free_last[p],
             nopen |-> fdtbl_nopen[p], files |-> files]

Repeats_never(err) == FALSE

\* while (err == -EAGAIN): the entry point goes through its loop once more
Repeats(err) == err = "EAGAIN"

\* the descriptors of a table that name a file
LiveFds(tbl) == {i \in DOMAIN tbl : fd_to_file(tbl, i) # NoFileId}

\* the elements of a set of at most one element, as a sequence
SetToSeq(S) == IF S = {} THEN <<>> ELSE <<CHOOSE x \in S : TRUE>>

\* the fd table of process p becomes that of the result x; c holds the
\* descriptor that is closed for good in this step, by a pfsd_close that
\* returns 0 or by a pfsd_open that fails and closes its file
TableSet(p, x, c) ==
    /\ fdtbl' = [fdtbl EXCEPT ![p] = x.tbl]
    /\ fdtbl_free_last' = [fdtbl_free_last EXCEPT ![p] = x.last]
    /\ fdtbl_nopen' = [fdtbl_nopen EXCEPT ![p] = x.nopen]
    /\ hist' = [hist EXCEPT ![p] =
           LET moved == {i \in DOMAIN x.tbl : x.tbl[i] # fdtbl[p][i]}
               live == Cardinality(LiveFds(x.tbl))
           IN [freed |-> IF x.nopen > fdtbl_nopen[p]
                         THEN SelectSeq(@.freed, LAMBDA i : i \notin moved)
                         ELSE IF x.nopen < fdtbl_nopen[p]
                         THEN @.freed \o SetToSeq(moved)
                         ELSE @.freed,
               peak |-> IF live > @.peak THEN live ELSE @.peak,
               forked |-> @.forked, inherited |-> @.inherited,
               closed |-> (@.closed \ (moved \cap LiveFds(x.tbl))) \cup c]]

SetTable(p, x) == TableSet(p, x, {})

InvalidateFile_skipped(fs, f) == fs

\* what pfsd_close_all_files does to a file of the mount under the file's
\* write lock: the file is cut off from its connection and its mount
InvalidateFile(fs, f) == [fs EXCEPT ![f].f_conn_id = -1, ![f].f_mp = NoRec]

\* pfsd_close_all_files from slot i on, as far as it gets without waiting:
\* the slot it stops at (PFSD_MAX_NFD when through) and the files by then
RECURSIVE CloseAllFrom(_, _, _, _)
CloseAllFrom(fs, tbl, mp, i) ==
    IF i >= PFSD_MAX_NFD THEN [i |-> i, files |-> fs]
    ELSE LET f == fd_to_file(tbl, i) IN
         IF f # NoFileId /\ fs[f].f_mp = mp
         THEN IF fs[f].wr = NoThread /\ fs[f].rd = {}
              THEN CloseAllFrom(InvalidateFile(fs, f), tbl, mp, i + 1)
              ELSE [i |-> i, files |-> fs]
         ELSE CloseAllFrom(fs, tbl, mp, i + 1)

(***************************************************************************)
(* Threads                                                                 *)
(***************************************************************************)
NoReq == [type |-> "none", len |-> 0, off |-> 0]

\* what is recorded of a call for the properties, none of it read by the code
NoGhost == [tgt |-> NoFileId, late |-> FALSE, len0 |-> 0, nreq |-> 0,
            log |-> <<>>, clean |-> TRUE, total |-> 0, failed |-> FALSE,
            call |-> 0, old |-> 0, rejected |-> FALSE,
            tried |-> FALSE, nlive |-> 0, freed |-> <<>>, got |-> -1,
            snap |-> <<>>, mut |-> FALSE, unreg |-> FALSE, noname |-> FALSE,
            drained |-> FALSE, next0 |-> 0, dirend |-> FALSE,
            closed |-> FALSE, reused |-> FALSE,
            nstale |-> 0, nmeta |-> 0, resend |-> NoReq, heard |-> "none"]

\* no DIR: the thread holds no handle of pfsd_opendir
NoDir == [d_ino |-> 0, d_next_ino |-> 0, d_next_offset |-> 0, d_data |-> <<>>,
          d_data_offset |-> 0, d_data_size |-> 0, d_conn_id |-> -1,
          g_delivered |-> <<>>, g_got |-> <<>>]

\* a path argument: a null pointer, the empty string, an absolute path too
\* long for PFS_MAX_PATHLEN, "/" alone, a relative path, or an absolute path
\* below the PBD pbd
NoPath == [kind |-> "null", pbd |-> ""]
AbsPath(b) == [kind |-> "abs", pbd |-> b]

\* the arguments of a name-based call besides its op: argok FALSE stands for
\* a null st of stat and a negative len of truncate
NoArg == [op |-> "none", path |-> NoPath, path2 |-> NoPath, argok |-> TRUE,
          amode |-> "F_OK"]

IdleThread == [pc |-> "idle", op |-> "none", pbd |-> "", hostid |-> 0,
               flags |-> {}, mode |-> "RD", mp |-> NoRec, tries |-> 0,
               conn |-> 0, ret |-> 0, errno |-> "0", note |-> "",
               fd |-> -1, file |-> NoFileId, len |-> 0, off |-> 0,
               whence |-> "none", total |-> 0, err |-> 0, req |-> NoReq,
               a |-> NoArg, e |-> "0", dir |-> NoDir, result |-> 0,
               buf |-> <<>>, g |-> NoGhost]

\* the registry and the fd table as a call finds them, where the callers
\* keep track of them
Snapshot ==
    IF cfg.snap
    THEN <<mount_list, recs, fdtbl, fdtbl_free_last, fdtbl_nopen, files>>
    ELSE <<>>

\* what a call returns when it fails: pfsd_opendir a null pointer, written 0,
\* every other call -1
Sentinel(op) ==
    IF op \in {"opendir", "pfs_opendir", "pfs_readdir", "pfs_getcwd"} THEN 0 ELSE -1

\* the call returns rv with errno e
Returned(t, rv, e) ==
    [IdleThread EXCEPT !.pc = "ret", !.op = th[t].op, !.ret = rv, !.errno = e,
                       !.fd = th[t].fd, !.off = th[t].off,
                       !.whence = th[t].whence, !.g = th[t].g]

\* the state of a process that has not called the SDK yet
InitMount ==
    /\ s_inited = [p \in Procs |-> FALSE]
    /\ pfsd = NoDaemon
    /\ work_dir = [p \in Procs |-> ""]
    /\ pfs_init_mtx = [p \in Procs |-> NoThread]
    /\ mount_list = [p \in Procs |-> <<>>]
    /\ inprogress = [p \in Procs |-> {}]
    /\ recs = [r \in RecIds |-> FreeRec]
    /\ kfd = [p \in Procs |-> [fd \in KFds |-> NoFile]]
    /\ flk = [p \in Procs |-> [b \in PBDs |-> {}]]
    /\ th = [t \in Threads |-> IdleThread]
    /\ fdtbl = [p \in Procs |-> [i \in 0..(PFSD_MAX_NFD - 1) |-> 0]]
    /\ fdtbl_free_last = [p \in Procs |-> -1]
    /\ fdtbl_nopen = [p \in Procs |-> 0]
    /\ hist = [p \in Procs |-> [freed |-> <<>>, peak |-> 0, forked |-> FALSE,
                                 inherited |-> {}, closed |-> {}]]
    /\ fdtbl_mtx = [p \in Procs |-> NoThread]
    /\ files = [f \in FileIds |-> FreeFile]
    /\ disk = <<>>
    /\ ncalls = 0

\* the SDK's calls, and the setting where the threads ts make any of them
\* and the other threads make none
NameOps == {"stat", "access", "truncate", "unlink", "rename", "mkdir", "rmdir",
            "opendir", "chdir", "mount_growfs", "increase_epoch"}

AllCalls == {"mount", "umount", "umount_force", "remount", "open", "close"}
                \cup FdOps
Only(ts) == [t \in Threads |-> IF t \in ts THEN AllCalls ELSE {}]

\* what the callers of a specification draw their arguments from, and what
\* the daemon and the channel may answer
AllArgs == [pbds |-> PBDs, hostids |-> HostIds, flagsets |-> FlagSets,
            oflags |-> {{}}, ops |-> {}, lens |-> {}, offs |-> {}, seeks |-> {},
            whences |-> {}, argoks |-> {}, rsps |-> {}, allocs |-> {TRUE},
            tagged |-> FALSE, logging |-> FALSE, room |-> MaxDisk,
            maxopen |-> PFSD_MAX_NFD + 1,
            nameops |-> {}, paths |-> {}, amodes |-> {"F_OK"}, snap |-> FALSE,
            derrs |-> {"ENOENT"},
            ubs |-> {"wrap", "fold"}, dirlen |-> 0, minpage |-> 1, stale |-> FALSE,
            stales |-> MaxStale]

\* two threads of one process on one PBD
InitReg ==
    /\ InitMount
    /\ cfg = [AllArgs EXCEPT !.pbds = {"A"}] @@ [calls |-> Only({"a1", "a2"})]

\* two processes on one PBD: one thread in each, and in the first a second
\* thread that unmounts
InitFence ==
    /\ InitMount
    /\ cfg = [AllArgs EXCEPT !.pbds = {"A"}, !.hostids = {1},
                             !.flagsets = {{"RD"}, {"RD", "WR"}}]
             @@ [calls |-> [Only({"b1"}) EXCEPT !["a1"] = {"mount", "umount_force"},
                                                !["a2"] = {"umount"}]]

\* the state pfsd_mount("A", 1, mflags), mflags being RD or RD | WR | TOOL,
\* and one pfsd_open leave in process p1: record 1 registered, file 1 at
\* fd 0, at offset off, the daemon's file holding the bytes d
RegistryAndTable(mflags, fflags, off) ==
    /\ s_inited = [p \in Procs |-> p = "p1"]
    /\ pfsd = NoDaemon
    /\ pfs_init_mtx = [p \in Procs |-> NoThread]
    /\ mount_list = [p \in Procs |-> IF p = "p1" THEN <<1>> ELSE <<>>]
    /\ inprogress = [p \in Procs |-> {}]
    /\ recs = [r \in RecIds |->
                 IF r = 1
                 THEN [pfs_mountargs_alloc("p1") EXCEPT !.pbd_name = "A",
                          !.host_id = 1, !.flags = mflags,
                          !.mflags = mflags, !.conn_id = 1,
                          !.hostid_lock_fd = IF "WR" \in mflags
                                             THEN HostidFd(1) ELSE -1,
                          !.on_list = TRUE, !.ref_count = 1]
                 ELSE FreeRec]
    /\ kfd = [p \in Procs |-> [fd \in KFds |->
                 IF p = "p1" /\ fd = HostidFd(1) /\ "WR" \in mflags
                 THEN "A" ELSE NoFile]]
    /\ flk = [p \in Procs |-> [b \in PBDs |->
                 IF p = "p1" /\ b = "A" /\ "WR" \in mflags
                 THEN {Range(1)} ELSE {}]]
    /\ fdtbl = [p \in Procs |-> [i \in 0..(PFSD_MAX_NFD - 1) |->
                 IF p = "p1" /\ i = 0 THEN 2 ELSE 0]]
    /\ fdtbl_free_last = [p \in Procs |-> -1]
    /\ fdtbl_nopen = [p \in Procs |-> IF p = "p1" THEN 1 ELSE 0]
    /\ hist = [p \in Procs |-> [freed |-> <<>>,
                                 peak |-> IF p = "p1" THEN 1 ELSE 0,
                                 forked |-> FALSE, inherited |-> {},
                                 closed |-> {}]]
    /\ fdtbl_mtx = [p \in Procs |-> NoThread]
    /\ files = [f \in FileIds |->
                 IF f = 1
                 THEN [pfsd_alloc_file EXCEPT !.f_fd = 0, !.f_inode = 1,
                          !.f_flags = fflags, !.f_offset = off, !.f_conn_id = 1,
                          !.f_mp = 1, !.g_mnt = 1, !.g_open = TRUE, !.ser = off]
                 ELSE FreeFile]

MountedAndOpen(mflags, fflags, off, d) ==
    /\ RegistryAndTable(mflags, fflags, off)
    /\ work_dir = [p \in Procs |-> ""]
    /\ th = [t \in Threads |-> IdleThread]
    /\ disk = d
    /\ ncalls = 0

\* one thread calls every operation that changes the file system, with good
\* and bad arguments, and some that do not, on a mount without MNTFLG_WR
InitRo ==
    /\ MountedAndOpen({"RD"}, {}, 0, <<Hole>>)
    /\ cfg = [AllArgs EXCEPT !.pbds = {"A"}, !.snap = TRUE, !.maxopen = 2,
                 !.oflags = {{}, {"CREAT"}, {"TRUNC"}},
                 !.ops = {"pread", "write", "pwrite", "fstat", "ftruncate",
                          "fallocate"},
                 !.lens = {0, 1}, !.offs = {-1, 0}, !.argoks = BOOLEAN,
                 !.rsps = {"full", "err", "stale"}, !.allocs = BOOLEAN,
                 !.nameops = {"stat", "access", "truncate", "unlink", "rename",
                              "mkdir", "rmdir"},
                 !.paths = {AbsPath("A")}, !.amodes = {"F_OK", "W_OK", "bad"}]
             @@ [calls |-> [t \in Threads |->
                     IF t = "a1" THEN AllCalls \cup NameOps ELSE {}]]

\* one thread makes every call that names a PBD, on "A", which is mounted
\* read-only until the thread remounts or unmounts it, and on "B", which was
\* never mounted
InitDev ==
    /\ MountedAndOpen({"RD"}, {}, 0, <<Hole>>)
    /\ cfg = [AllArgs EXCEPT !.pbds = {"A", "B"}, !.hostids = {1},
                 !.flagsets = {{"RD", "WR"}}, !.maxopen = 2,
                 !.argoks = BOOLEAN, !.rsps = {"full", "err", "stale"},
                 !.allocs = BOOLEAN, !.nameops = NameOps,
                 !.paths = {NoPath, AbsPath("A"), AbsPath("B")},
                 !.amodes = {"F_OK", "bad"}]
             @@ [calls |-> [t \in Threads |->
                     IF t = "a1"
                     THEN NameOps \cup {"open", "umount", "umount_force",
                                        "remount"}
                     ELSE {}]]

\* "A" is mounted read-only by process p1 as host 1: a thread of p1 remounts
\* and unmounts it while a thread of process p2 mounts and unmounts it, as
\* host 1 or 2
InitRem ==
    /\ MountedAndOpen({"RD"}, {}, 0, <<Hole>>)
    /\ cfg = [AllArgs EXCEPT !.pbds = {"A"}, !.hostids = {1, 2}]
             @@ [calls |-> [t \in Threads |->
                     CASE t = "a1" -> {"remount", "umount"}
                       [] t = "b1" -> {"mount", "umount"}
                       [] OTHER -> {}]]

\* nothing is mounted: a thread of each process mounts and unmounts the
\* empty name, as host 1, and the one of p1 remounts as well
InitName ==
    /\ InitMount
    /\ cfg = [AllArgs EXCEPT !.pbds = {""}, !.hostids = {1}]
             @@ [calls |-> [t \in Threads |->
                     CASE t = "a1" -> {"mount", "umount", "remount"}
                       [] t = "b1" -> {"mount", "umount"}
                       [] OTHER -> {}]]

\* one thread unmounts, mounts again, opens and reads, while a second one
\* opens, uses and closes descriptors, the first of which is open already
InitFd ==
    /\ MountedAndOpen({"RD", "WR", "TOOL"}, {}, 0, <<Hole>>)
    /\ cfg = [AllArgs EXCEPT !.pbds = {"A"}, !.hostids = {1},
                             !.flagsets = {{"RD", "WR", "TOOL"}},
                             !.ops = FdOps, !.lens = {1}, !.offs = {-1, 0},
                             !.seeks = {0}, !.whences = {"SEEK_SET", "SEEK_END"},
                             !.argoks = BOOLEAN, !.rsps = {"full", "err"},
                             !.room = 1, !.maxopen = 1]
             @@ [calls |-> [t \in Threads |->
                     CASE t = "a1" -> {"umount", "umount_force", "mount",
                                       "read"}
                       [] t = "a2" -> {"open", "close"} \cup FdOps
                       [] OTHER -> {}]]

\* two threads read, write and seek on one descriptor without O_APPEND
InitIO ==
    /\ MountedAndOpen({"RD", "WR", "TOOL"}, {}, 0, <<Hole, Hole, Hole>>)
    /\ cfg = [AllArgs EXCEPT !.pbds = {"A"},
                 !.ops = {"read", "pread", "write", "pwrite", "lseek"},
                 !.lens = {MaxLen}, !.offs = {0}, !.seeks = {1},
                 !.whences = {"SEEK_SET", "SEEK_CUR", "SEEK_END"},
                 !.rsps = {"full", "err"}]
             @@ [calls |-> Only({"a1", "a2"})]

\* two threads write on one descriptor opened with O_APPEND
InitAppend ==
    /\ MountedAndOpen({"RD", "WR", "TOOL"}, {"APPEND"}, 0, <<>>)
    /\ cfg = [AllArgs EXCEPT !.pbds = {"A"},
                 !.ops = {"write", "pwrite", "lseek"}, !.tagged = TRUE,
                 !.lens = {1, MaxLen}, !.offs = {0}, !.seeks = {0},
                 !.whences = {"SEEK_END"},
                 !.rsps = {"full", "short", "zero", "err", "stale"}]
             @@ [calls |-> Only({"a1", "a2"})]

\* one thread seeks on a descriptor from any offset, by any offset
InitSeek ==
    /\ \E off \in 0..OFF_MAX :
           MountedAndOpen({"RD", "WR", "TOOL"}, {}, off, <<Hole, Hole>>)
    /\ cfg = [AllArgs EXCEPT !.pbds = {"A"}, !.ops = {"lseek"},
                 !.seeks = OFF_MIN..OFF_MAX,
                 !.whences = {"SEEK_SET", "SEEK_CUR", "SEEK_END"},
                 !.rsps = {"full", "err", "stale"}]
             @@ [calls |-> Only({"a1"})]

\* one thread reads and writes, in chunks, on a descriptor with or without
\* O_APPEND, of a mount that is writable or not, of a file of one byte or
\* three; every answer is possible
InitChunk ==
    /\ \E mflags \in {{"RD"}, {"RD", "WR", "TOOL"}}, fflags \in {{}, {"APPEND"}},
          d \in {<<Hole>>, <<Hole, Hole, Hole>>} :
           MountedAndOpen(mflags, fflags, 0, d)
    /\ cfg = [AllArgs EXCEPT !.pbds = {"A"},
                 !.ops = {"read", "pread", "write", "pwrite"},
                 !.lens = 0..MaxLen, !.offs = {0, 1}, !.logging = TRUE,
                 !.rsps = {"full", "short", "zero", "err", "stale"},
                 !.allocs = BOOLEAN]
             @@ [calls |-> Only({"a1"})]

\* two threads open and close descriptors of one mount, one of them calling
\* fstat as well; one file is open already
InitTbl ==
    /\ MountedAndOpen({"RD", "WR", "TOOL"}, {}, 0, <<Hole>>)
    /\ cfg = [AllArgs EXCEPT !.pbds = {"A"}, !.ops = {"fstat"},
                             !.argoks = {TRUE}, !.rsps = {"full", "err"}]
             @@ [calls |-> [t \in Threads |->
                     CASE t = "a1" -> {"open", "close"}
                       [] t = "a2" -> {"open", "close", "fstat"}
                       [] OTHER -> {}]]

(***************************************************************************)
(* pfsd_mount = pfsd_sdk_init                                              *)
(***************************************************************************)
\* pfs_mount_prepare, from "out:" on: the record is filled and returned;
\* pfsd_sdk_init marks it in progress and drops the mutex for the connect
MountPrepared(t, r, rec, k, f) ==
    LET p == ProcOf(t) IN
    /\ recs' = [recs EXCEPT ![r] = [rec EXCEPT !.pbd_name = th[t].pbd,
                                              !.host_id = th[t].hostid,
                                              !.flags = th[t].flags,
                                              !.mflags = th[t].flags]]
    /\ inprogress' = pfs_mountargs_add_inprogress(inprogress, p, r)
    /\ pfs_init_mtx' = [pfs_init_mtx EXCEPT ![p] = NoThread]
    /\ kfd' = k
    /\ flk' = f
    /\ th' = [th EXCEPT ![t].pc = "mount_connect", ![t].mp = r, ![t].tries = 0]

\* pfs_mount_prepare, "err_handle:", then pfsd_sdk_init "failed:" with mp NULL
MountPrepareFailed(t, r, rec, k, f, e) ==
    LET p == ProcOf(t)
        u1 == pfsd_paxos_hostid_local_unlock(k, f, p, rec.hostid_lock_fd)
        u2 == pfsd_paxos_hostid_local_unlock(u1.kfd, u1.flk, p, rec.meta_lock_fd)
    IN
    /\ recs' = pfs_mountargs_free(recs, r)
    /\ kfd' = u2.kfd
    /\ flk' = u2.flk
    /\ pfs_init_mtx' = [pfs_init_mtx EXCEPT ![p] = NoThread]
    /\ th' = [th EXCEPT ![t] = Returned(t, -1, e)]
    /\ UNCHANGED inprogress

MountEnter_locked(t, pbdname, hostid, flags) ==
    LET p == ProcOf(t)
        r == NewRec
        me == [th[t] EXCEPT !.op = "mount", !.pbd = pbdname, !.hostid = hostid,
                            !.flags = flags, !.ret = 0, !.errno = "0",
                            !.g.noname = pbdname = ""]
    IN
    /\ "mount" \in cfg.calls[t]
    /\ th[t].pc = "idle"
    /\ pfs_init_mtx[p] = NoThread
    /\ s_inited' = [s_inited EXCEPT ![p] = TRUE]
    /\ UNCHANGED <<ioVars, cfg, pfsd, work_dir, mount_list>>
    /\ IF pfs_mountargs_exists(p, pbdname) \/ pfs_mountargs_inprogress(p, pbdname)
       THEN \* "already mounted": -1, errno untouched
            /\ th' = [th EXCEPT ![t] = [IdleThread EXCEPT !.pc = "ret", !.op = "mount", !.ret = -1,
                                       !.note = "already mounted",
                                       !.g.noname = pbdname = ""]]
            /\ UNCHANGED <<pfs_init_mtx, inprogress, recs, kfd, flk>>
       ELSE IF PbdNameTooLong(pbdname)
       THEN \* pfs_mount_prepare returns NULL before it allocates: "failed:"
            /\ th' = [th EXCEPT ![t] = [IdleThread EXCEPT !.pc = "ret", !.op = "mount",
                                       !.pbd = pbdname, !.ret = -1,
                                       !.errno = "EINVAL"]]
            /\ UNCHANGED <<pfs_init_mtx, inprogress, recs, kfd, flk>>
       ELSE IF FALSE
       THEN
            /\ recs' = [recs EXCEPT ![r] =
                          [pfs_mountargs_alloc(p) EXCEPT !.pbd_name = pbdname,
                               !.host_id = hostid, !.flags = flags, !.mflags = flags]]
            /\ inprogress' = pfs_mountargs_add_inprogress(inprogress, p, r)
            /\ th' = [th EXCEPT ![t] = [me EXCEPT !.pc = "mount_connect", !.mp = r]]
            /\ UNCHANGED <<pfs_init_mtx, kfd, flk>>
       ELSE \* the mutex stays locked over the lock attempts
            /\ recs' = [recs EXCEPT ![r] = pfs_mountargs_alloc(p)]
            /\ pfs_init_mtx' = [pfs_init_mtx EXCEPT ![p] = t]
            /\ th' = [th EXCEPT ![t] =
                        [me EXCEPT !.mp = r, !.tries = 0,
                                   !.pc = IF "TOOL" \notin flags
                                          THEN "mount_meta" ELSE "mount_hostid"]]
            /\ UNCHANGED <<inprogress, kfd, flk>>

\* pfsd_sdk_init up to the first lock attempt of pfs_mount_prepare
MountEnter(t, pbdname, hostid, flags) ==
    LET p == ProcOf(t)
        r == NewRec
        me == [th[t] EXCEPT !.op = "mount", !.pbd = pbdname, !.hostid = hostid,
                            !.flags = flags, !.ret = 0, !.errno = "0",
                            !.g.noname = pbdname = ""]
    IN
    /\ "mount" \in cfg.calls[t]
    /\ th[t].pc = "idle"
    /\ pfs_init_mtx[p] = NoThread
    /\ s_inited' = [s_inited EXCEPT ![p] = TRUE]
    /\ UNCHANGED <<ioVars, cfg, pfsd, work_dir, mount_list>>
    /\ IF pfs_mountargs_exists(p, pbdname) \/ pfs_mountargs_inprogress(p, pbdname)
       THEN \* "already mounted": -1, errno untouched
            /\ th' = [th EXCEPT ![t] = [IdleThread EXCEPT !.pc = "ret", !.op = "mount", !.ret = -1,
                                       !.note = "already mounted",
                                       !.g.noname = pbdname = ""]]
            /\ UNCHANGED <<pfs_init_mtx, inprogress, recs, kfd, flk>>
       ELSE IF PbdNameTooLong(pbdname)
       THEN \* pfs_mount_prepare returns NULL before it allocates: "failed:"
            /\ th' = [th EXCEPT ![t] = [IdleThread EXCEPT !.pc = "ret", !.op = "mount",
                                       !.pbd = pbdname, !.ret = -1,
                                       !.errno = "EINVAL"]]
            /\ UNCHANGED <<pfs_init_mtx, inprogress, recs, kfd, flk>>
       ELSE IF "WR" \notin flags
       THEN \* read only: no lock at all
            /\ recs' = [recs EXCEPT ![r] =
                          [pfs_mountargs_alloc(p) EXCEPT !.pbd_name = pbdname,
                               !.host_id = hostid, !.flags = flags, !.mflags = flags]]
            /\ inprogress' = pfs_mountargs_add_inprogress(inprogress, p, r)
            /\ th' = [th EXCEPT ![t] = [me EXCEPT !.pc = "mount_connect", !.mp = r]]
            /\ UNCHANGED <<pfs_init_mtx, kfd, flk>>
       ELSE \* the mutex stays locked over the lock attempts
            /\ recs' = [recs EXCEPT ![r] = pfs_mountargs_alloc(p)]
            /\ pfs_init_mtx' = [pfs_init_mtx EXCEPT ![p] = t]
            /\ th' = [th EXCEPT ![t] =
                        [me EXCEPT !.mp = r, !.tries = 0,
                                   !.pc = IF "TOOL" \notin flags
                                          THEN "mount_meta" ELSE "mount_hostid"]]
            /\ UNCHANGED <<inprogress, kfd, flk>>

\* one turn of the meta-lock loop of pfs_mount_prepare
MountMetaLock(t) ==
    LET p == ProcOf(t)
        r == th[t].mp
        l == pfsd_paxos_hostid_local_lock(kfd, flk, p, th[t].pbd,
                                          DEFAULT_MAX_HOSTS + 1, MetaFd(r))
    IN
    /\ th[t].pc = "mount_meta"
    /\ UNCHANGED <<ioVars, cfg, pfsd, work_dir, s_inited, mount_list>>
    /\ IF l.fd >= 0
       THEN /\ recs' = [recs EXCEPT ![r].meta_lock_fd = l.fd]
            /\ kfd' = l.kfd
            /\ flk' = l.flk
            /\ th' = [th EXCEPT ![t].pc = "mount_hostid"]
            /\ UNCHANGED <<pfs_init_mtx, inprogress>>
       ELSE IF th[t].tries + 1 < MetaLockAttempts
       THEN \* usleep and try again
            /\ kfd' = l.kfd
            /\ flk' = l.flk
            /\ th' = [th EXCEPT ![t].tries = @ + 1]
            /\ UNCHANGED <<pfs_init_mtx, inprogress, recs>>
       ELSE MountPrepareFailed(t, r, recs[r], l.kfd, l.flk, "ETIMEDOUT")

\* the hostid lock of pfs_mount_prepare
MountHostidLock(t) ==
    LET p == ProcOf(t)
        r == th[t].mp
        region == IF "TOOL" \in th[t].flags /\ th[t].hostid = 0
                  THEN DEFAULT_MAX_HOSTS + 2 ELSE th[t].hostid
        l == pfsd_paxos_hostid_local_lock(kfd, flk, p, th[t].pbd, region, HostidFd(r))
    IN
    /\ th[t].pc = "mount_hostid"
    /\ UNCHANGED <<ioVars, cfg, pfsd, work_dir, s_inited, mount_list>>
    /\ IF l.fd >= 0
       THEN MountPrepared(t, r, [recs[r] EXCEPT !.hostid_lock_fd = l.fd], l.kfd, l.flk)
       ELSE MountPrepareFailed(t, r, recs[r], l.kfd, l.flk, l.errno)

\* pfsd_chnl_connect, outside the mutex: a positive conn_id, or a failure
MountConnect(t, conn) ==
    /\ th[t].pc = "mount_connect"
    /\ th' = [th EXCEPT ![t].pc = "mount_post", ![t].conn = conn]
    /\ UNCHANGED mountVars

pfs_mountargs_register(ml, rs, p, r) ==
    IF ~rs[r].on_list
    THEN [list |-> [ml EXCEPT ![p] = <<r>> \o @],
          recs |-> [rs EXCEPT ![r].on_list = TRUE, ![r].ref_count = @ + 1]]
    ELSE [list |-> ml, recs |-> rs]

pfs_mount_post_kept(ml, rs, k, f, p, r, err) ==
    LET u1 == pfsd_paxos_hostid_local_unlock(k, f, p, rs[r].meta_lock_fd)
        rs1 == [rs EXCEPT ![r].meta_lock_fd = -1]
        reg == pfs_mountargs_register(ml, rs1, p, r)
    IN IF err < 0
       THEN [list |-> ml, recs |-> rs1, kfd |-> u1.kfd, flk |-> u1.flk]
       ELSE [list |-> reg.list, recs |-> reg.recs, kfd |-> u1.kfd, flk |-> u1.flk]

\* pfs_mount_post(mp, err)
pfs_mount_post(ml, rs, k, f, p, r, err) ==
    LET u1 == pfsd_paxos_hostid_local_unlock(k, f, p, rs[r].meta_lock_fd)
        rs1 == [rs EXCEPT ![r].meta_lock_fd = -1]
        u2 == pfsd_paxos_hostid_local_unlock(u1.kfd, u1.flk, p, rs[r].hostid_lock_fd)
        reg == pfs_mountargs_register(ml, rs1, p, r)
    IN IF err < 0
       THEN [list |-> ml, recs |-> pfs_mountargs_free(rs1, r), kfd |-> u2.kfd, flk |-> u2.flk]
       ELSE [list |-> reg.list, recs |-> reg.recs, kfd |-> u1.kfd, flk |-> u1.flk]

\* pfsd_sdk_init after the connect, under the mutex again
MountPost(t) ==
    LET p == ProcOf(t)
        r == th[t].mp
        ok == th[t].conn > 0
        rs0 == IF ok THEN [recs EXCEPT ![r].conn_id = th[t].conn] ELSE recs
        post == pfs_mount_post(mount_list, rs0, kfd, flk, p, r, IF ok THEN 0 ELSE -1)
    IN
    /\ th[t].pc = "mount_post"
    /\ pfs_init_mtx[p] = NoThread
    /\ inprogress' = pfs_mountargs_remove_inprogress(inprogress, p, r)
    /\ mount_list' = post.list
    /\ recs' = post.recs
    /\ kfd' = post.kfd
    /\ flk' = post.flk
    /\ th' = [th EXCEPT ![t] = Returned(t, IF ok THEN 0 ELSE -1, th[t].errno)]
    /\ UNCHANGED <<ioVars, cfg, pfsd, work_dir, s_inited, pfs_init_mtx>>

(***************************************************************************)
(* pfs_mountargs_find / pfs_mountargs_put                                  *)
(***************************************************************************)
\* where a call goes on once pfs_mountargs_find has returned the record
AfterFind(op) ==
    CASE op = "open" -> "open_fd"
      [] op = "umount" -> "um_close"
      [] op = "umount_force" -> "um_close"
      [] op = "remount" -> "rm_prepare"
      [] OTHER -> "name_body"

\* the search under the mutex; a hit is pinned by ref_count
FindLookup(t) ==
    LET p == ProcOf(t)
        r == ListLookup(p, th[t].pbd)
    IN
    /\ th[t].pc = "find"
    /\ pfs_init_mtx[p] = NoThread
    /\ IF r = NoRec
       THEN \* CHECK_MOUNT2: no such device
            /\ th' = [th EXCEPT ![t] = Returned(t, Sentinel(th[t].op), "ENODEV")]
            /\ UNCHANGED mountVars
       ELSE /\ recs' = [recs EXCEPT ![r].ref_count = @ + 1]
            /\ th' = [th EXCEPT ![t].pc = "find_lock", ![t].mp = r]
            /\ UNCHANGED <<ioVars, cfg, pfsd, work_dir, s_inited, pfs_init_mtx, mount_list, inprogress, kfd, flk>>

CanRdLock(r) == recs[r].wr = NoThread

CanWrLock(r) == recs[r].wr = NoThread /\ recs[r].rd = {}

FindLock_unchecked(t) ==
    LET r == th[t].mp IN
    /\ th[t].pc = "find_lock"
    /\ IF th[t].mode = "RD" THEN CanRdLock(r) ELSE CanWrLock(r)
    /\ recs' = IF th[t].mode = "RD"
               THEN [recs EXCEPT ![r].rd = @ \cup {t}]
               ELSE [recs EXCEPT ![r].wr = t]
    /\ th' = [th EXCEPT ![t].pc = AfterFind(th[t].op)]
    /\ UNCHANGED <<ioVars, cfg, pfsd, work_dir, s_inited, pfs_init_mtx, mount_list, inprogress, kfd, flk>>

\* the rwlock is granted; a record that left the list meanwhile is given up
FindLock(t) ==
    LET r == th[t].mp IN
    /\ th[t].pc = "find_lock"
    /\ IF th[t].mode = "RD" THEN CanRdLock(r) ELSE CanWrLock(r)
    /\ IF recs[r].on_list
       THEN /\ recs' = IF th[t].mode = "RD"
                       THEN [recs EXCEPT ![r].rd = @ \cup {t}]
                       ELSE [recs EXCEPT ![r].wr = t]
            /\ th' = [th EXCEPT ![t].pc = AfterFind(th[t].op)]
       ELSE \* pfs_mountargs_put unlocks at once, then needs the mutex
            /\ th' = [th EXCEPT ![t].pc = "find_put"]
            /\ UNCHANGED recs
    /\ UNCHANGED <<ioVars, cfg, pfsd, work_dir, s_inited, pfs_init_mtx, mount_list, inprogress, kfd, flk>>

DropRef_always(rs, r) == pfs_mountargs_free(rs, r)

\* ref_count-- under the mutex, the record is freed at zero
DropRef(rs, r) ==
    IF rs[r].ref_count = 1
    THEN pfs_mountargs_free(rs, r)
    ELSE [rs EXCEPT ![r].ref_count = @ - 1]

\* pthread_rwlock_unlock
RwUnlock(rs, r, t) == [rs EXCEPT ![r].wr = IF @ = t THEN NoThread ELSE @,
                                 ![r].rd = @ \ {t}]

\* the tail of the pfs_mountargs_put inside find, then "goto again"
FindPut(t) ==
    LET p == ProcOf(t) IN
    /\ th[t].pc = "find_put"
    /\ pfs_init_mtx[p] = NoThread
    /\ recs' = DropRef(recs, th[t].mp)
    /\ th' = [th EXCEPT ![t].pc = "find", ![t].mp = NoRec]
    /\ UNCHANGED <<ioVars, cfg, pfsd, work_dir, s_inited, pfs_init_mtx, mount_list, inprogress, kfd, flk>>

\* the files opened on record r are, from the return of its umount on, files
\* of an unmounted file system
MarkUnmounted(fs, r) ==
    [f \in FileIds |-> IF fs[f].live /\ fs[f].g_open /\ fs[f].g_mnt = r
                       THEN [fs[f] EXCEPT !.g_dead = TRUE] ELSE fs[f]]

\* the tail of PUT_MOUNT (the rwlock is already unlocked), then the return
PutRef(t) ==
    LET p == ProcOf(t) IN
    /\ th[t].pc = "put_ref"
    /\ pfs_init_mtx[p] = NoThread
    /\ recs' = DropRef(recs, th[t].mp)
    /\ th' = [th EXCEPT ![t] = Returned(t, th[t].ret, th[t].errno)]
    /\ files' = IF th[t].op \in {"umount", "umount_force"} /\ th[t].ret = 0
                THEN MarkUnmounted(files, th[t].mp) ELSE files
    /\ UNCHANGED <<cfg, pfsd, work_dir, s_inited, pfs_init_mtx, mount_list, inprogress, kfd, flk>>
    /\ UNCHANGED <<fdtbl, fdtbl_free_last, fdtbl_nopen, hist, fdtbl_mtx, disk, ncalls>>

(***************************************************************************)
(* pfsd_umount, pfsd_umount_force                                          *)
(***************************************************************************)
UmountEnter(t, pbdname, force) ==
    /\ (IF force THEN "umount_force" ELSE "umount") \in cfg.calls[t]
    /\ th[t].pc = "idle"
    /\ th' = [th EXCEPT ![t] = [IdleThread EXCEPT !.pc = "find", !.mode = "WR",
                   !.op = IF force THEN "umount_force" ELSE "umount",
                   !.pbd = pbdname,
                   !.g.unreg = Unregistered(ProcOf(t), pbdname)]]
    /\ UNCHANGED mountVars

UmountChnlClose_anyway(t, err) ==
    LET p == ProcOf(t)
        r == th[t].mp
        force == th[t].op = "umount_force"
        u == IF force
             THEN pfsd_paxos_hostid_local_unlock(kfd, flk, p, recs[r].meta_lock_fd)
             ELSE [kfd |-> kfd, flk |-> flk]
        rs1 == IF force THEN [recs EXCEPT ![r].meta_lock_fd = -1] ELSE recs
    IN
    /\ th[t].pc = "um_close"
    /\ kfd' = u.kfd
    /\ flk' = u.flk
    /\ IF TRUE
       THEN /\ recs' = rs1
            /\ th' = [th EXCEPT ![t].pc = "um_caf", ![t].ret = err, ![t].tries = 0]
       ELSE \* PUT_MOUNT: unlock, the reference goes under the mutex
            /\ recs' = RwUnlock(rs1, r, t)
            /\ th' = [th EXCEPT ![t].pc = "put_ref", ![t].ret = err]
    /\ UNCHANGED <<ioVars, cfg, pfsd, work_dir, s_inited, pfs_init_mtx, mount_list, inprogress>>

\* pfs_umount_prepare (force only), then pfsd_chnl_close
UmountChnlClose(t, err) ==
    LET p == ProcOf(t)
        r == th[t].mp
        force == th[t].op = "umount_force"
        u == IF force
             THEN pfsd_paxos_hostid_local_unlock(kfd, flk, p, recs[r].meta_lock_fd)
             ELSE [kfd |-> kfd, flk |-> flk]
        rs1 == IF force THEN [recs EXCEPT ![r].meta_lock_fd = -1] ELSE recs
    IN
    /\ th[t].pc = "um_close"
    /\ kfd' = u.kfd
    /\ flk' = u.flk
    /\ IF err = 0
       THEN /\ recs' = rs1
            /\ th' = [th EXCEPT ![t].pc = "um_caf", ![t].ret = 0, ![t].tries = 0]
       ELSE \* PUT_MOUNT: unlock, the reference goes under the mutex
            /\ recs' = RwUnlock(rs1, r, t)
            /\ th' = [th EXCEPT ![t].pc = "put_ref", ![t].ret = err]
    /\ UNCHANGED <<ioVars, cfg, pfsd, work_dir, s_inited, pfs_init_mtx, mount_list, inprogress>>

\* pfsd_close_all_files: the table mutex is taken, then the files of the
\* mount are cut off one by one, each under its write lock, and the walk
\* waits, the mutex held, at a file that is locked
CloseAllFiles(t) ==
    LET p == ProcOf(t)
        started == fdtbl_mtx[p] = t
        run == CloseAllFrom(files, fdtbl[p], th[t].mp, th[t].tries)
        through == run.i >= PFSD_MAX_NFD
    IN
    /\ th[t].pc = "um_caf"
    /\ started \/ fdtbl_mtx[p] = NoThread
    /\ ~started \/ run.i > th[t].tries
    /\ files' = run.files
    /\ fdtbl_mtx' = [fdtbl_mtx EXCEPT ![p] = IF through THEN NoThread ELSE t]
    /\ th' = [th EXCEPT ![t].pc = IF through THEN "um_post" ELSE "um_caf",
                        ![t].tries = IF through THEN 0 ELSE run.i]
    /\ UNCHANGED <<regVars, fdtbl, fdtbl_free_last, fdtbl_nopen, hist, disk, ncalls>>

pfs_mountargs_unregister(ml, rs, p, r) ==
    IF rs[r].on_list
    THEN [list |-> [ml EXCEPT ![p] = RemoveFromSeq(@, r)],
          recs |-> DropRef([rs EXCEPT ![r].on_list = FALSE], r)]
    ELSE [list |-> ml, recs |-> rs]

\* pfs_umount_post: the hostid lock goes, then the record leaves the list
\* under the mutex; PUT_MOUNT's unlock follows at once
UmountPost(t) ==
    LET p == ProcOf(t)
        r == th[t].mp
        u == pfsd_paxos_hostid_local_unlock(kfd, flk, p, recs[r].hostid_lock_fd)
        un == pfs_mountargs_unregister(mount_list, recs, p, r)
    IN
    /\ th[t].pc = "um_post"
    /\ pfs_init_mtx[p] = NoThread
    /\ kfd' = u.kfd
    /\ flk' = u.flk
    /\ mount_list' = un.list
    /\ recs' = RwUnlock(un.recs, r, t)
    /\ th' = [th EXCEPT ![t].pc = "put_ref"]
    /\ UNCHANGED <<ioVars, cfg, pfsd, work_dir, s_inited, pfs_init_mtx, inprogress>>

(***************************************************************************)
(* pfsd_remount                                                            *)
(***************************************************************************)
RemountEnter(t, pbdname, hostid, flags) ==
    /\ "remount" \in cfg.calls[t]
    /\ th[t].pc = "idle"
    /\ th' = [th EXCEPT ![t] = [IdleThread EXCEPT !.pc = "find", !.mode = "WR",
                   !.op = "remount", !.pbd = pbdname, !.hostid = hostid,
                   !.flags = flags,
                   !.g.unreg = Unregistered(ProcOf(t), pbdname)]]
    /\ UNCHANGED mountVars

pfs_remount_post_keep(rs, k, f, p, r, err) == [recs |-> rs, kfd |-> k, flk |-> f]

\* pfs_remount_post(mp, err): after a failure the hostid lock is given up
pfs_remount_post(rs, k, f, p, r, err) ==
    LET u == pfsd_paxos_hostid_local_unlock(k, f, p, rs[r].hostid_lock_fd) IN
    IF err < 0
    THEN [recs |-> [rs EXCEPT ![r].hostid_lock_fd = -1], kfd |-> u.kfd, flk |-> u.flk]
    ELSE [recs |-> rs, kfd |-> k, flk |-> f]

\* the checks of pfsd_remount and pfs_remount_prepare
RemountPrepare(t) ==
    LET p == ProcOf(t)
        r == th[t].mp
        l == pfsd_paxos_hostid_local_lock(kfd, flk, p, th[t].pbd, th[t].hostid,
                                          HostidFd(r))
        \* pfs_remount_prepare returns -1 for the flags; "failed:"
        bad == pfs_remount_post(recs, kfd, flk, p, r, -1)
        \* pfs_remount_prepare "err_handle:", then "failed:"
        u == pfsd_paxos_hostid_local_unlock(l.kfd, l.flk, p, recs[r].hostid_lock_fd)
        nolock == pfs_remount_post([recs EXCEPT ![r].hostid_lock_fd = -1],
                                   u.kfd, u.flk, p, r, -1)
    IN
    /\ th[t].pc = "rm_prepare"
    /\ UNCHANGED <<ioVars, cfg, pfsd, work_dir, s_inited, pfs_init_mtx, mount_list, inprogress>>
    /\ IF th[t].hostid # recs[r].host_id \/ "WR" \in recs[r].flags
       THEN /\ recs' = RwUnlock(recs, r, t)
            /\ th' = [th EXCEPT ![t].pc = "put_ref", ![t].ret = -1, ![t].errno = "EINVAL"]
            /\ UNCHANGED <<kfd, flk>>
       ELSE IF "TOOL" \in th[t].flags \/ "WR" \notin th[t].flags
       THEN /\ recs' = RwUnlock(bad.recs, r, t)
            /\ kfd' = bad.kfd
            /\ flk' = bad.flk
            /\ th' = [th EXCEPT ![t].pc = "put_ref", ![t].ret = -1, ![t].errno = "EINVAL"]
       ELSE IF l.fd < 0
       THEN /\ recs' = RwUnlock(nolock.recs, r, t)
            /\ kfd' = nolock.kfd
            /\ flk' = nolock.flk
            /\ th' = [th EXCEPT ![t].pc = "put_ref", ![t].ret = -1, ![t].errno = l.errno]
       ELSE /\ recs' = [recs EXCEPT ![r].hostid_lock_fd = l.fd]
            /\ kfd' = l.kfd
            /\ flk' = l.flk
            /\ th' = [th EXCEPT ![t].pc = "rm_reconnect"]

\* pfsd_chnl_reconnect on the same conn_id, pfs_remount_post, PUT_MOUNT
RemountReconnect(t, res) ==
    LET p == ProcOf(t)
        r == th[t].mp
        rs0 == IF res = 0 THEN [recs EXCEPT ![r].flags = th[t].flags] ELSE recs
        post == pfs_remount_post(rs0, kfd, flk, p, r, res)
    IN
    /\ th[t].pc = "rm_reconnect"
    /\ UNCHANGED <<ioVars, cfg, pfsd, work_dir, s_inited, pfs_init_mtx, mount_list, inprogress>>
    /\ recs' = RwUnlock(post.recs, r, t)
    /\ kfd' = post.kfd
    /\ flk' = post.flk
    /\ th' = [th EXCEPT ![t].pc = "put_ref", ![t].ret = res]

(***************************************************************************)
(* pfsd_open, pfsd_close                                                   *)
(***************************************************************************)
\* PUT_MOUNT at the end of a call that fails or ends with rv and errno e:
\* the rwlock goes now, the reference under the registry mutex
PutMountThen(t, rv, e) ==
    /\ recs' = RwUnlock(recs, th[t].mp, t)
    /\ th' = [th EXCEPT ![t].pc = "put_ref", ![t].ret = rv, ![t].errno = e]

pfsd_writable_always(mflags) == TRUE

\* the mount allows writing
pfsd_writable(mflags) == "WR" \in mflags

\* a caller passes a descriptor that pfsd_open has returned to it and whose
\* pfsd_close it has not called; a forked child also passes the descriptors
\* that pfsd_open had returned to its parent; callers that keep stale
\* descriptors (cfg.stale) pass any descriptor pfsd_open has returned,
\* closed or being closed as it may be
CanUse(p, fd) ==
    LET f == fd_to_file(fdtbl[p], fd) IN
    \/ hist[p].forked /\ fd \in hist[p].inherited
    \/ cfg.stale /\ fd \in hist[p].closed
    \/ cfg.stale /\ f # NoFileId /\ files[f].g_open
    \/ /\ f # NoFileId
       /\ files[f].g_open
       /\ \A u \in Threads :
              ~(ProcOf(u) = p /\ th[u].op = "close" /\ th[u].fd = fd
                /\ th[u].pc \notin {"idle", "ret"})

\* the threads of process p in a pfsd_open that has not got its descriptor
Opening(p) ==
    {u \in Threads : /\ ProcOf(u) = p /\ th[u].op = "open"
                     /\ th[u].pc \notin {"idle", "ret"} /\ th[u].fd = -1}

\* the callers keep fewer than cfg.maxopen files open and being opened
OpenEnter(t, pbdname, oflags) ==
    /\ "open" \in cfg.calls[t]
    /\ Cardinality(LiveFds(fdtbl[ProcOf(t)])) + Cardinality(Opening(ProcOf(t)))
           < cfg.maxopen
    /\ th[t].pc = "idle"
    /\ th' = [th EXCEPT ![t] = [IdleThread EXCEPT !.pc = "find", !.mode = "RD",
                   !.op = "open", !.pbd = pbdname, !.flags = oflags,
                   !.g.snap = Snapshot,
                   !.g.mut = oflags \cap {"CREAT", "TRUNC"} # {},
                   !.g.unreg = Unregistered(ProcOf(t), pbdname)]]
    /\ UNCHANGED mountVars

\* the calls under way on a closed descriptor fd of process p see an open
\* take its slot
SlotGiven(p, fd, ths) ==
    [u \in Threads |->
        IF /\ ProcOf(u) = p /\ ths[u].fd = fd /\ ths[u].g.closed
           /\ ths[u].op \in FdOps \cup {"close"}
           /\ ths[u].pc \notin {"idle", "ret"}
        THEN [ths[u] EXCEPT !.g.reused = TRUE] ELSE ths[u]]

\* CHECK_WRITABLE, pfsd_alloc_file, pfsd_alloc_fd and the OPEN request
OpenAllocFd(t) ==
    LET p == ProcOf(t)
        r == th[t].mp
        f == NewFile
        got == fd_get_free(fdtbl[p], fdtbl_free_last[p], fdtbl_nopen[p], f)
        rofs == /\ th[t].flags \cap {"CREAT", "TRUNC"} # {}
                /\ ~pfsd_writable(recs[r].flags)
    IN
    /\ th[t].pc = "open_fd"
    \* pfsd_alloc_file finds memory
    /\ \E q \in FileIds : ~files[q].live
    /\ rofs \/ fdtbl_mtx[p] = NoThread
    /\ UNCHANGED <<cfg, pfsd, work_dir, s_inited, pfs_init_mtx, mount_list, inprogress, kfd, flk>>
    /\ UNCHANGED <<fdtbl_mtx, disk, ncalls>>
    /\ IF rofs
       THEN /\ PutMountThen(t, -1, "EROFS")
            /\ UNCHANGED <<fdtbl, fdtbl_free_last, fdtbl_nopen, hist, files>>
       ELSE IF got.fd = -1
       THEN /\ recs' = RwUnlock(recs, r, t)
            /\ th' = [th EXCEPT ![t].pc = "put_ref", ![t].ret = -1,
                                ![t].errno = "EMFILE", ![t].g.tried = TRUE,
                                ![t].g.nlive = Cardinality(LiveFds(fdtbl[p])),
                                ![t].g.freed = hist[p].freed]
            /\ UNCHANGED <<fdtbl, fdtbl_free_last, fdtbl_nopen, hist, files>>
       ELSE /\ SetTable(p, got)
            /\ files' = [files EXCEPT ![f] = [pfsd_alloc_file EXCEPT
                            !.f_fd = got.fd,
                            !.f_flags = th[t].flags \ {"CREAT", "TRUNC"}]]
            /\ th' = SlotGiven(p, got.fd,
                          [th EXCEPT ![t].pc = "open_recv", ![t].file = f,
                                ![t].fd = got.fd, ![t].g.nreq = 1,
                                ![t].g.tried = TRUE, ![t].g.got = got.fd,
                                ![t].g.nlive = Cardinality(LiveFds(fdtbl[p])),
                                ![t].g.freed = hist[p].freed])
            /\ UNCHANGED recs

\* the daemon's answer to OPEN
OpenRecv(t, kind) ==
    LET p == ProcOf(t)
        r == th[t].mp
        f == th[t].file
        cl == pfsd_close_file(p, f)
    IN
    /\ th[t].pc = "open_recv"
    /\ UNCHANGED <<cfg, pfsd, work_dir, s_inited, pfs_init_mtx, mount_list, inprogress, kfd, flk>>
    /\ UNCHANGED <<fdtbl_mtx, disk, ncalls>>
    /\ CASE kind = "stale" ->
              \* CHECK_STALE: the request is sent again
              /\ th[t].tries < MaxStale
              /\ th' = [th EXCEPT ![t].tries = @ + 1, ![t].g.nreq = @ + 1]
              /\ UNCHANGED <<recs, fdtbl, fdtbl_free_last, fdtbl_nopen, hist, files>>
         [] kind = "full" ->
              /\ files' = [files EXCEPT ![f].f_inode = 1, ![f].f_offset = 0,
                              ![f].f_conn_id = recs[r].conn_id, ![f].f_mp = r,
                              ![f].g_mnt = r, ![f].g_open = TRUE]
              /\ PutMountThen(t, th[t].fd, th[t].errno)
              /\ UNCHANGED <<fdtbl, fdtbl_free_last, fdtbl_nopen, hist>>
         [] kind = "err" ->
              \* o_ino is -1: the file is closed again, its result ignored
              /\ fdtbl_mtx[p] = NoThread
              /\ TableSet(p, cl, {th[t].fd})
              /\ files' = cl.files
              /\ PutMountThen(t, -1, "ENOENT")

CloseEnter(t, fd) ==
    /\ "close" \in cfg.calls[t]
    /\ th[t].pc = "idle"
    /\ CanUse(ProcOf(t), fd)
    /\ th' = [th EXCEPT ![t] = [IdleThread EXCEPT !.pc = "close_get",
                   !.op = "close", !.fd = fd,
                   !.g.tgt = fd_to_file(fdtbl[ProcOf(t)], fd),
                   !.g.late =
                       IF fd_to_file(fdtbl[ProcOf(t)], fd) = NoFileId THEN FALSE
                       ELSE files[fd_to_file(fdtbl[ProcOf(t)], fd)].g_dead,
                   !.g.closed = fd \in hist[ProcOf(t)].closed]]
    /\ UNCHANGED mountVars

\* pfsd_get_file(fd, true), up to the wait for the write lock
CloseGet(t) ==
    LET p == ProcOf(t)
        f == fd_to_file(fdtbl[p], th[t].fd)
    IN
    /\ th[t].pc = "close_get"
    /\ fdtbl_mtx[p] = NoThread
    /\ IF f = NoFileId
       THEN /\ th' = [th EXCEPT ![t] = Returned(t, -1, "EBADF")]
            /\ UNCHANGED files
       ELSE /\ files' = [files EXCEPT ![f].f_refcnt = @ + 1]
            /\ th' = [th EXCEPT ![t].pc = "close_lock", ![t].file = f]
    /\ UNCHANGED <<regVars, fdtbl, fdtbl_free_last, fdtbl_nopen, hist, fdtbl_mtx, disk, ncalls>>

\* the write lock of the file is granted
CloseLock(t) ==
    LET f == th[t].file IN
    /\ th[t].pc = "close_lock"
    /\ files[f].wr = NoThread /\ files[f].rd = {}
    /\ files' = [files EXCEPT ![f].wr = t]
    /\ th' = [th EXCEPT ![t].pc = "close_file"]
    /\ UNCHANGED <<regVars, fdtbl, fdtbl_free_last, fdtbl_nopen, hist, fdtbl_mtx, disk, ncalls>>

\* pfsd_close_file; on -EAGAIN the lock is dropped for another round (the
\* rounds are counted up to MaxAgain)
CloseFile(t) ==
    LET p == ProcOf(t)
        f == th[t].file
        cl == pfsd_close_file(p, f)
    IN
    /\ th[t].pc = "close_file"
    /\ fdtbl_mtx[p] = NoThread
    /\ TableSet(p, cl, IF cl.err = "0" THEN {th[t].fd} ELSE {})
    /\ IF cl.err = "0"
       THEN /\ files' = cl.files
            /\ th' = [th EXCEPT ![t] = [Returned(t, 0, th[t].errno) EXCEPT
                                           !.tries = th[t].tries]]
       ELSE /\ files' = [files EXCEPT ![f].wr = NoThread]
            /\ th' = [th EXCEPT ![t].pc = "close_put", ![t].e = cl.err,
                                ![t].tries = IF @ < MaxAgain THEN @ + 1 ELSE @]
    /\ UNCHANGED <<regVars, fdtbl_mtx, disk, ncalls>>

\* pfsd_put_file(file, NULL) of the round that failed: the reference goes,
\* and the loop of pfsd_close goes on or ends with errno = -err
ClosePut(t) ==
    LET p == ProcOf(t)
        f == th[t].file
    IN
    /\ th[t].pc = "close_put"
    /\ fdtbl_mtx[p] = NoThread
    /\ files' = [files EXCEPT ![f].f_refcnt = @ - 1]
    /\ th' = IF Repeats(th[t].e)
             THEN [th EXCEPT ![t].pc = "close_get", ![t].file = NoFileId]
             ELSE [th EXCEPT ![t] = [Returned(t, -1, th[t].e) EXCEPT
                                        !.tries = th[t].tries]]
    /\ UNCHANGED <<regVars, fdtbl, fdtbl_free_last, fdtbl_nopen, hist, fdtbl_mtx, disk, ncalls>>

(***************************************************************************)
(* The fd operations: PFSD_SDK_GET_FILE, the chunk loops, pfsd_put_file    *)
(***************************************************************************)
\* the arguments callers pass besides fd: a length for read, pread, write,
\* pwrite and ftruncate; an offset for pread, pwrite and lseek; a whence for
\* lseek; argok FALSE stands for a null st of fstat, a negative len of
\* ftruncate, a negative offset or a len <= 0 of fallocate
Calls ==
    {[op |-> o, len |-> l, off |-> 0, whence |-> "none", argok |-> TRUE] :
         o \in cfg.ops \cap {"read", "write"}, l \in cfg.lens}
    \cup {[op |-> o, len |-> l, off |-> x, whence |-> "none", argok |-> x >= 0] :
         o \in cfg.ops \cap {"pread", "pwrite"}, l \in cfg.lens, x \in cfg.offs}
    \cup {[op |-> "lseek", len |-> 0, off |-> x, whence |-> w, argok |-> TRUE] :
         o \in cfg.ops \cap {"lseek"}, x \in cfg.seeks, w \in cfg.whences}
    \cup {[op |-> o, len |-> 0, off |-> 0, whence |-> "none", argok |-> b] :
         o \in cfg.ops \cap {"fstat", "ftruncate", "fallocate"}, b \in cfg.argoks}

\* the argument checks a call makes before it looks at fd
ArgsRejected(a) ==
    \/ a.op = "pwrite" /\ a.off < 0
    \/ a.op \in {"fstat", "ftruncate", "fallocate"} /\ ~a.argok

FdEnter(t, fd, a) ==
    LET p == ProcOf(t)
        f == fd_to_file(fdtbl[p], fd)
        \* a write or pwrite whose buffer holds bytes of its own
        iswrite == a.op \in {"write", "pwrite"} /\ cfg.tagged
        me == [IdleThread EXCEPT !.op = a.op, !.fd = fd, !.len = a.len,
                   !.off = IF a.op = "write" THEN OFFSET_FILE_POS ELSE a.off,
                   !.whence = a.whence,
                   !.g.tgt = f,
                   !.g.late = IF f = NoFileId THEN FALSE ELSE files[f].g_dead,
                   !.g.len0 = a.len,
                   !.g.closed = fd \in hist[p].closed,
                   !.g.snap = Snapshot,
                   !.g.mut = \/ a.op \in {"write", "pwrite"} /\ a.len > 0
                             \/ a.op \in {"ftruncate", "fallocate"},
                   !.g.call = IF iswrite THEN ncalls + 1 ELSE 0]
    IN
    /\ a.op \in cfg.calls[t]
    /\ th[t].pc = "idle"
    /\ CanUse(p, fd)
    /\ iswrite => ncalls < MaxCalls
    /\ ncalls' = IF iswrite THEN ncalls + 1 ELSE ncalls
    /\ th' = [th EXCEPT ![t] =
                IF ArgsRejected(a)
                THEN [me EXCEPT !.pc = "ret", !.ret = -1, !.errno = "EINVAL",
                                !.g.rejected = TRUE]
                ELSE [me EXCEPT !.pc = "get_file"]]
    /\ UNCHANGED <<regVars, fileVars, disk>>

\* pfsd_get_file(fd, false), up to the wait for the read lock
GetFile(t) ==
    LET p == ProcOf(t)
        f == fd_to_file(fdtbl[p], th[t].fd)
    IN
    /\ th[t].pc = "get_file"
    /\ fdtbl_mtx[p] = NoThread
    /\ IF f = NoFileId
       THEN /\ th' = [th EXCEPT ![t] = Returned(t, -1, "EBADF")]
            /\ UNCHANGED files
       ELSE /\ files' = [files EXCEPT ![f].f_refcnt = @ + 1]
            /\ th' = [th EXCEPT ![t].pc = "file_lock", ![t].file = f]
    /\ UNCHANGED <<regVars, fdtbl, fdtbl_free_last, fdtbl_nopen, hist, fdtbl_mtx, disk, ncalls>>

\* the read lock of the file is granted and f_mp is looked at: a file cut
\* off from its mount is unlocked at once and the call ends with ENODEV
FileLock(t) ==
    LET f == th[t].file IN
    /\ th[t].pc = "file_lock"
    /\ files[f].wr = NoThread
    /\ IF files[f].f_mp = NoRec
       THEN /\ th' = [th EXCEPT ![t].pc = "put_file", ![t].ret = -1,
                                ![t].errno = "ENODEV"]
            /\ UNCHANGED files
       ELSE /\ files' = [files EXCEPT ![f].rd = @ \cup {t}]
            /\ th' = [th EXCEPT ![t].pc = "mp_rdlock", ![t].mp = files[f].f_mp]
    /\ UNCHANGED <<regVars, fdtbl, fdtbl_free_last, fdtbl_nopen, hist, fdtbl_mtx, disk, ncalls>>

NeedsLseekLock_never(op, fflags) == FALSE

\* the calls that hold f_lseek_lock over their body
NeedsLseekLock(op, fflags) ==
    \/ op \in {"read", "write", "lseek"}
    \/ op = "pwrite" /\ "APPEND" \in fflags

BodyPc(op) ==
    CASE op \in {"read", "pread", "write", "pwrite"} -> "chunk"
      [] op = "lseek" -> "lseek_local"
      [] OTHER -> "simple"

\* pfs_mountargs_rdlock(mp) is granted
MountRdLock(t) ==
    LET r == th[t].mp
        f == th[t].file
    IN
    /\ th[t].pc = "mp_rdlock"
    /\ CanRdLock(r)
    /\ recs' = [recs EXCEPT ![r].rd = @ \cup {t}]
    /\ th' = [th EXCEPT ![t].pc = IF NeedsLseekLock(th[t].op, files[f].f_flags)
                                  THEN "lseek_lock" ELSE BodyPc(th[t].op)]
    /\ UNCHANGED <<cfg, pfsd, work_dir, s_inited, pfs_init_mtx, mount_list, inprogress, kfd, flk, ioVars>>

\* pthread_mutex_lock(&file->f_lseek_lock) is granted
LseekLock(t) ==
    LET f == th[t].file IN
    /\ th[t].pc = "lseek_lock"
    /\ files[f].f_lseek_lock = NoThread
    /\ files' = [files EXCEPT ![f].f_lseek_lock = t]
    /\ th' = [th EXCEPT ![t].pc = BodyPc(th[t].op)]
    /\ UNCHANGED <<regVars, fdtbl, fdtbl_free_last, fdtbl_nopen, hist, fdtbl_mtx, disk, ncalls>>

Min(a, b) == IF a < b THEN a ELSE b

to_chunk_uncapped(len) == len

\* to_read, to_write: what one turn of the loop asks for
to_chunk(len) == IF len > PFSD_MAX_IOSIZE THEN PFSD_MAX_IOSIZE ELSE len

\* pfsd_file_pread before its request: the length is cut to the maximum, a
\* negative offset is refused
pfsd_file_pread_pre(len, off) ==
    [errno |-> IF off < 0 THEN "EINVAL" ELSE "0",
     len |-> IF len > PFSD_MAX_IOSIZE THEN PFSD_MAX_IOSIZE ELSE len,
     off2 |-> off]

pfsd_file_pwrite_pre_plain(f, len, off) ==
    LET off2 == IF off = OFFSET_FILE_POS THEN files[f].f_offset ELSE off
    IN [errno |-> IF "WR" \notin recs[files[f].f_mp].flags THEN "EROFS"
                  ELSE IF len > PFSD_MAX_IOSIZE THEN "EFBIG"
                  ELSE IF off2 < 0 THEN "EINVAL"
                  ELSE "0",
        len |-> len, off2 |-> off2]

\* pfsd_file_pwrite before its request: the mount must be writable, the
\* length within the maximum; O_APPEND sends OFFSET_FILE_SIZE whatever the
\* offset, OFFSET_FILE_POS stands for f_offset
pfsd_file_pwrite_pre(f, len, off) ==
    LET off2 == IF "APPEND" \in files[f].f_flags THEN OFFSET_FILE_SIZE
                ELSE IF off = OFFSET_FILE_POS THEN files[f].f_offset
                ELSE off
    IN [errno |-> IF "WR" \notin recs[files[f].f_mp].flags THEN "EROFS"
                  ELSE IF len > PFSD_MAX_IOSIZE THEN "EFBIG"
                  ELSE IF off2 < 0 /\ off2 # OFFSET_FILE_SIZE THEN "EINVAL"
                  ELSE "0",
        len |-> len, off2 |-> off2]

pfsd_file_pwrite_post_always(fflags, off, old, ss, w_file_size) == old + ss

\* pfsd_file_pwrite after an answer with ss >= 0, the new f_offset:
\* f_offset += ss when off is OFFSET_FILE_POS, and f_offset = w_file_size
\* when the file is O_APPEND as well
pfsd_file_pwrite_post(fflags, off, old, ss, w_file_size) ==
    IF off = OFFSET_FILE_POS
    THEN IF "APPEND" \in fflags THEN w_file_size ELSE old + ss
    ELSE old

\* a chunk or a call fails with errno e, rc is -1; answered: it is the
\* daemon or the channel that failed it, not a check of the SDK
IoFailed(t, e, answered) ==
    [th EXCEPT ![t].pc = "io_done", ![t].err = -1, ![t].errno = e,
               ![t].req = NoReq, ![t].g.failed = TRUE,
               ![t].g.clean = @ /\ ~answered]

IoFail(t, e, answered) == th' = IoFailed(t, e, answered)

pfsd_file_pwrite_checks_stale_always(fflags) == TRUE

\* pfsd_file_pwrite: if ((file->f_flags & O_APPEND) == 0) CHECK_STALE(rsp)
pfsd_file_pwrite_checks_stale(fflags) == "APPEND" \notin fflags

CHECK_STALE_never(kind) == FALSE

\* CHECK_STALE(rsp): rsp->error == ESTALE
CHECK_STALE(kind) == kind = "stale"

\* the body of CHECK_STALE: pfsd_chnl_update_meta, pfsd_chnl_buffer_free,
\* goto retry, the label before pfsd_chnl_buffer_alloc (pc)
Retry(t, pc) ==
    [th EXCEPT ![t].pc = pc, ![t].tries = @ + 1, ![t].req = NoReq,
               ![t].g.clean = FALSE, ![t].g.nmeta = @ + 1,
               ![t].g.resend = th[t].req]

\* the answer of the daemon as the caller's record keeps it: the ESTALE
\* answers counted, the kind of the last other answer
Heard(t, kind, ths) ==
    [ths EXCEPT ![t].g.nstale = IF kind = "stale" THEN @ + 1 ELSE @,
                ![t].g.heard = IF kind = "stale" THEN @ ELSE kind,
                ![t].g.resend = IF kind = "stale" THEN @ ELSE NoReq]

\* the head of the loop of pfsd_read, pfsd_pread, pfsd_write, pfsd_pwrite and
\* the call of pfsd_file_pread or pfsd_file_pwrite up to its request; alloc:
\* pfsd_chnl_buffer_alloc finds a buffer
Chunk(t, alloc) ==
    LET f == th[t].file
        op == th[t].op
        to == to_chunk(th[t].len)
        off == CASE op = "read" -> files[f].f_offset
                 [] op = "write" -> OFFSET_FILE_POS
                 [] OTHER -> th[t].off + th[t].total
        pre == IF op \in {"write", "pwrite"}
               THEN pfsd_file_pwrite_pre(f, to, off)
               ELSE pfsd_file_pread_pre(to, off)
    IN
    /\ th[t].pc = "chunk"
    /\ IF th[t].len = 0
       THEN th' = [th EXCEPT ![t].pc = "io_done"]
       ELSE IF pre.errno # "0" THEN IoFail(t, pre.errno, FALSE)
       ELSE IF ~alloc THEN IoFail(t, "ENOMEM", TRUE)
       ELSE th' = [th EXCEPT ![t].pc = "chunk_recv",
                      ![t].req = [type |-> IF op \in {"write", "pwrite"}
                                           THEN "WRITE" ELSE "READ",
                                  len |-> pre.len, off |-> pre.off2],
                      ![t].g.nreq = @ + 1,
                      ![t].g.log = IF cfg.logging
                                   THEN Append(@, [boff |-> th[t].total,
                                                   len |-> pre.len,
                                                   off |-> pre.off2, land |-> -1])
                                   ELSE @]
    /\ UNCHANGED mountVars

\* the daemon's file after w is written at place pos
WriteAt(d, pos, w) ==
    IF Len(w) = 0 THEN d
    ELSE [i \in 1..(IF Len(d) > pos + Len(w) THEN Len(d) ELSE pos + Len(w)) |->
             IF i > pos /\ i <= pos + Len(w) THEN w[i - pos]
             ELSE IF i <= Len(d) THEN d[i] ELSE Hole]

\* the daemon serves the READ or WRITE request and the call takes the
\* answer: CHECK_STALE, the result, the offset, then the rest of the turn
ChunkRecv(t, kind) ==
    LET f == th[t].file
        op == th[t].op
        req == th[t].req
        isw == req.type = "WRITE"
        app == "APPEND" \in files[f].f_flags
        \* the daemon resolves OFFSET_FILE_SIZE to the end of the file
        pos == IF req.off = OFFSET_FILE_SIZE THEN Len(disk) ELSE req.off
        room == cfg.room - pos
        avail == IF pos < Len(disk) THEN Len(disk) - pos ELSE 0
        want == IF isw THEN (IF room < 0 THEN 0 ELSE Min(req.len, room))
                ELSE Min(req.len, avail)
        ss == CASE kind = "full" -> want
                [] kind = "short" -> want - 1
                [] kind = "zero" -> 0
                [] OTHER -> -1
        data == [k \in 1..ss |-> Tag(th[t].g.call, op, th[t].total + k - 1)]
        newdisk == IF isw /\ ss > 0 THEN WriteAt(disk, pos, data) ELSE disk
        \* the off pfsd_file_pwrite was called with
        arg == IF op = "write" THEN OFFSET_FILE_POS ELSE th[t].off + th[t].total
        woff == pfsd_file_pwrite_post(files[f].f_flags, arg, files[f].f_offset,
                                      ss, Len(newdisk))
        \* pfsd_read: f_offset += rc when rc > 0
        roff == IF op = "read" /\ ss > 0 THEN files[f].f_offset + ss
                ELSE files[f].f_offset
        last == Len(th[t].g.log)
    IN
    /\ th[t].pc = "chunk_recv"
    /\ kind = "full" /\ isw => req.len <= room
    /\ kind = "short" => want >= 2
    /\ UNCHANGED <<regVars, fdtbl, fdtbl_free_last, fdtbl_nopen, hist, fdtbl_mtx, ncalls>>
    /\ IF /\ CHECK_STALE(kind)
          /\ isw => pfsd_file_pwrite_checks_stale(files[f].f_flags)
       THEN \* CHECK_STALE: update the meta data, free the buffers, retry
            /\ th[t].tries < cfg.stales
            /\ th' = Heard(t, kind, Retry(t, "chunk"))
            /\ UNCHANGED <<files, disk>>
       ELSE IF ss < 0
       THEN \* errno = rsp->error
            /\ th' = Heard(t, kind,
                          IoFailed(t, IF kind = "stale" THEN "ESTALE" ELSE "EIO",
                                   TRUE))
            /\ UNCHANGED <<files, disk>>
       ELSE /\ disk' = newdisk
            /\ files' = [files EXCEPT ![f].f_offset = IF isw THEN woff ELSE roff]
            /\ th' = Heard(t, kind, [th EXCEPT
                        ![t].pc = IF ss > 0 THEN "chunk" ELSE "io_done",
                        ![t].total = @ + ss,
                        ![t].len = @ - ss,
                        ![t].req = NoReq,
                        ![t].g.log = IF cfg.logging
                                     THEN [@ EXCEPT ![last].land = pos] ELSE @,
                        ![t].g.clean = @ /\ kind = "full" /\ ss = req.len])

(***************************************************************************)
(* pfsd_lseek                                                              *)
(***************************************************************************)
\* x as a two's complement number of OffBits bits
Wrap(x) == ((x - OFF_MIN) % (2 ^ OffBits)) + OFF_MIN

\* local_file_lseek: the result, the errno it sets ("" when it sets none)
\* and the new f_offset. old_offset + offset is a signed addition: when the
\* sum does not fit off_t the behaviour is undefined, and the two tests of
\* the sum against old_offset, which come after the addition, are kept by
\* one build (ub = "wrap": the sum wraps and is tested) and dropped as
\* always false by another (ub = "fold")
local_file_lseek(old, offset, whence, ub) ==
    LET sum == old + offset
        fits == OFF_MIN <= sum /\ sum <= OFF_MAX
        new == IF whence = "SEEK_SET" THEN offset ELSE Wrap(sum)
        tested == fits \/ ub = "wrap"
        overflow == /\ whence = "SEEK_CUR"
                    /\ tested
                    /\ \/ offset > 0 /\ new < old
                       \/ offset < 0 /\ new > old
    IN CASE whence = "SEEK_END" -> [rv |-> -1, errno |-> "0", off |-> old]
         [] whence \notin {"SEEK_SET", "SEEK_CUR", "SEEK_END"} ->
                [rv |-> -1, errno |-> "EINVAL", off |-> old]
         [] whence \in {"SEEK_SET", "SEEK_CUR"} /\ overflow ->
                [rv |-> -1, errno |-> "EOVERFLOW", off |-> old]
         [] whence \in {"SEEK_SET", "SEEK_CUR"} /\ ~overflow /\ new < 0 ->
                [rv |-> -1, errno |-> "EINVAL", off |-> old]
         [] OTHER -> [rv |-> new, errno |-> "", off |-> new]

\* pfsd_file_lseek up to its request: only SEEK_END gets that far
LseekLocal(t, ub, alloc) ==
    LET f == th[t].file
        l == local_file_lseek(files[f].f_offset, th[t].off, th[t].whence, ub)
    IN
    /\ th[t].pc = "lseek_local"
    /\ UNCHANGED <<regVars, fdtbl, fdtbl_free_last, fdtbl_nopen, hist, fdtbl_mtx, disk, ncalls>>
    /\ IF l.rv >= 0
       THEN /\ files' = [files EXCEPT ![f].f_offset = l.off]
            /\ th' = [th EXCEPT ![t].pc = "io_done", ![t].total = l.rv,
                                ![t].g.old = files[f].f_offset]
       ELSE IF l.errno # "0"
       THEN /\ th' = [th EXCEPT ![t].pc = "io_done", ![t].err = -1,
                                ![t].errno = l.errno, ![t].g.failed = TRUE,
                                ![t].g.old = files[f].f_offset]
            /\ UNCHANGED files
       ELSE IF ~alloc
       THEN /\ IoFail(t, "ENOMEM", TRUE)
            /\ UNCHANGED files
       ELSE /\ th' = [th EXCEPT ![t].pc = "lseek_recv", ![t].errno = "0",
                         ![t].g.old = files[f].f_offset,
                         ![t].req = [type |-> "LSEEK", len |-> 0, off |-> th[t].off],
                         ![t].g.nreq = @ + 1]
            /\ UNCHANGED files

\* the daemon serves the LSEEK request: the end of the file plus the offset
LseekRecv(t, kind) ==
    LET f == th[t].file
        l_offset == Len(disk) + th[t].req.off
    IN
    /\ th[t].pc = "lseek_recv"
    /\ kind \in {"full", "err", "stale"}
    /\ UNCHANGED <<regVars, fdtbl, fdtbl_free_last, fdtbl_nopen, hist, fdtbl_mtx, disk, ncalls>>
    /\ IF CHECK_STALE(kind)
       THEN /\ th[t].tries < cfg.stales
            /\ th' = Heard(t, kind, Retry(t, "lseek_local"))
            /\ UNCHANGED files
       ELSE IF kind \in {"err", "stale"} \/ l_offset < 0 \/ l_offset > OFF_MAX
       THEN /\ th' = Heard(t, kind,
                          IoFailed(t, IF kind = "stale" THEN "ESTALE"
                                      ELSE IF kind = "err" THEN "EIO"
                                      ELSE IF l_offset < 0 THEN "EINVAL"
                                      ELSE "EOVERFLOW", TRUE))
            /\ UNCHANGED files
       ELSE /\ files' = [files EXCEPT ![f].f_offset = l_offset]
            /\ th' = Heard(t, kind,
                          [th EXCEPT ![t].pc = "io_done", ![t].total = l_offset,
                                     ![t].req = NoReq])

(***************************************************************************)
(* pfsd_fstat, pfsd_ftruncate, pfsd_fallocate                              *)
(***************************************************************************)
SimpleSend(t, alloc) ==
    LET f == th[t].file
        r == th[t].mp
    IN
    /\ th[t].pc = "simple"
    /\ IF th[t].op \in {"ftruncate", "fallocate"} /\ "WR" \notin recs[r].flags
       THEN IoFail(t, "EROFS", FALSE)
       ELSE IF ~alloc THEN IoFail(t, "ENOMEM", TRUE)
       ELSE th' = [th EXCEPT ![t].pc = "simple_recv", ![t].g.nreq = @ + 1,
                      ![t].req = [type |-> th[t].op, len |-> th[t].len, off |-> 0]]
    /\ UNCHANGED mountVars

\* the daemon's answer: f_res is 0 or -1 with an error
SimpleRecv(t, kind) ==
    /\ th[t].pc = "simple_recv"
    /\ kind \in {"full", "err", "stale"}
    /\ UNCHANGED <<regVars, fileVars, ncalls>>
    /\ CASE CHECK_STALE(kind) ->
              /\ th[t].tries < cfg.stales
              /\ th' = Heard(t, kind, Retry(t, "simple"))
              /\ UNCHANGED disk
         [] ~CHECK_STALE(kind) /\ kind \in {"err", "stale"} ->
              /\ th' = Heard(t, kind,
                            IoFailed(t, IF kind = "stale" THEN "ESTALE" ELSE "EIO",
                                     TRUE))
              /\ UNCHANGED disk
         [] kind = "full" ->
              /\ th' = Heard(t, kind,
                            [th EXCEPT ![t].pc = "io_done", ![t].req = NoReq])
              /\ disk' = IF th[t].op = "ftruncate"
                         THEN SubSeq(disk, 1, Min(th[t].req.len, Len(disk)))
                         ELSE disk

(***************************************************************************)
(* The name-based operations: pfsd_stat, pfsd_access, pfsd_truncate,       *)
(* pfsd_unlink, pfsd_rename, pfsd_mkdir, pfsd_rmdir, pfsd_opendir,         *)
(* pfsd_chdir, pfsd_mount_growfs, pfsd_increase_epoch                      *)
(***************************************************************************)
\* pfsd_name_init: the absolute path, as the PBD it lies below ("" when the
\* path has no segment), or the errno it fails with; a relative path is put
\* below the working directory, and with none set the call fails with errno
\* left as it was
pfsd_name_init(path, wd) ==
    CASE path.kind \in {"null", "empty"} -> [err |-> "EINVAL", pbd |-> ""]
      [] path.kind = "long" -> [err |-> "ENAMETOOLONG", pbd |-> ""]
      [] path.kind = "rel" -> IF wd = "" THEN [err |-> "unset", pbd |-> ""]
                              ELSE [err |-> "0", pbd |-> wd]
      [] path.kind = "root" -> [err |-> "0", pbd |-> ""]
      [] OTHER -> [err |-> "0", pbd |-> path.pbd]

\* the first non-empty segment of the absolute path is the PBD name; a path
\* with none yields EINVAL
pfsd_sdk_pbdname(n) ==
    IF n.err # "0" THEN n
    ELSE IF n.pbd = "" THEN [err |-> "EINVAL", pbd |-> ""]
    ELSE n

\* what a call does before CHECK_MOUNT: the errno it returns with, or the
\* PBD name it looks up
NamePrologue(a, wd) ==
    LET n1 == pfsd_name_init(a.path, wd)
        n2 == pfsd_name_init(a.path2, wd)
        b1 == pfsd_sdk_pbdname(n1)
        b2 == pfsd_sdk_pbdname(n2)
        fail(e) == [err |-> e, pbd |-> ""]
    IN CASE a.op \in {"mount_growfs", "increase_epoch"} ->
              [err |-> "0", pbd |-> a.path.pbd]
         [] a.op \in {"stat", "truncate"} ->
              IF a.path.kind = "null" \/ ~a.argok THEN fail("EINVAL") ELSE b1
         [] a.op = "access" ->
              IF a.amode = "bad" THEN fail("EINVAL")
              ELSE IF n1.err # "0" THEN fail("EFAULT")
              ELSE b1
         [] a.op = "rename" ->
              IF a.path.kind = "null" \/ a.path2.kind = "null" THEN fail("EINVAL")
              ELSE IF n1.err # "0" THEN n1
              ELSE IF n2.err # "0" THEN n2
              ELSE IF b1.err # "0" \/ b2.err # "0" THEN fail("EINVAL")
              ELSE IF b1.pbd # b2.pbd THEN fail("EXDEV")
              ELSE b2
         [] OTHER -> b1

\* the PBDs the paths of a call lie below
PathPbds(a, wd) ==
    {x.pbd : x \in {y \in {a.path, a.path2} : y.kind = "abs"}}
        \cup (IF "rel" \in {a.path.kind, a.path2.kind} /\ wd # "" THEN {wd} ELSE {})

\* the calls behind CHECK_WRITABLE
Mutating(a) ==
    \/ a.op \in {"truncate", "unlink", "rename", "mkdir", "rmdir"}
    \/ a.op = "access" /\ a.amode = "W_OK"

\* the name-based calls the callers make
NameCalls ==
    {[op |-> o, path |-> x, path2 |-> NoPath, argok |-> TRUE, amode |-> "F_OK"] :
         o \in cfg.nameops \cap {"unlink", "mkdir", "rmdir", "opendir", "chdir"},
         x \in cfg.paths}
    \cup {[op |-> o, path |-> AbsPath(b), path2 |-> NoPath, argok |-> TRUE,
           amode |-> "F_OK"] :
         o \in cfg.nameops \cap {"mount_growfs", "increase_epoch"}, b \in cfg.pbds}
    \cup {[op |-> o, path |-> x, path2 |-> NoPath, argok |-> k, amode |-> "F_OK"] :
         o \in cfg.nameops \cap {"stat", "truncate"}, x \in cfg.paths,
         k \in cfg.argoks}
    \cup {[op |-> "access", path |-> x, path2 |-> NoPath, argok |-> TRUE,
           amode |-> am] :
         o \in cfg.nameops \cap {"access"}, x \in cfg.paths, am \in cfg.amodes}
    \cup {[op |-> "rename", path |-> x, path2 |-> y, argok |-> TRUE,
           amode |-> "F_OK"] :
         o \in cfg.nameops \cap {"rename"}, x \in cfg.paths, y \in cfg.paths}

NameEnter(t, a) ==
    LET pr == NamePrologue(a, work_dir[ProcOf(t)])
        me == [IdleThread EXCEPT !.op = a.op, !.a = a, !.pbd = pr.pbd,
                                 !.mode = "RD", !.g.snap = Snapshot,
                                 !.g.mut = Mutating(a),
                                 !.g.unreg =
                                     \E b \in PathPbds(a, work_dir[ProcOf(t)]) :
                                         Unregistered(ProcOf(t), b)]
    IN
    /\ a.op \in cfg.calls[t]
    /\ th[t].pc = "idle"
    /\ th' = [th EXCEPT ![t] =
                IF pr.err # "0"
                THEN [me EXCEPT !.pc = "ret", !.ret = Sentinel(a.op),
                                !.errno = pr.err,
                                !.g.rejected = TRUE]
                ELSE [me EXCEPT !.pc = "find"]]
    /\ UNCHANGED mountVars

\* CHECK_WRITABLE, pfsd_chdir_begin, pfsd_chnl_buffer_alloc and the request
NameBody(t, alloc) ==
    LET r == th[t].mp IN
    /\ th[t].pc = "name_body"
    /\ UNCHANGED <<cfg, pfsd, work_dir, s_inited, pfs_init_mtx, mount_list, inprogress, kfd, flk>>
    /\ UNCHANGED ioVars
    /\ IF Mutating(th[t].a) /\ ~pfsd_writable(recs[r].flags)
       THEN PutMountThen(t, Sentinel(th[t].op), "EROFS")
       ELSE /\ th[t].op = "chdir" =>
                  \A u \in Threads :
                      ~(ProcOf(u) = ProcOf(t) /\ th[u].op = "chdir"
                        /\ th[u].pc = "name_recv")
            /\ IF ~alloc THEN PutMountThen(t, Sentinel(th[t].op), "ENOMEM")
               ELSE /\ th' = [th EXCEPT ![t].pc = "name_recv", ![t].g.nreq = @ + 1]
                    /\ UNCHANGED recs

\* the daemon's answer; after a CHDIR that succeeded the path is normalised
\* and becomes the working directory
NameRecv(t, kind, e) ==
    LET p == ProcOf(t) IN
    /\ th[t].pc = "name_recv"
    /\ kind \in {"full", "err", "stale"}
    /\ UNCHANGED <<cfg, pfsd, s_inited, pfs_init_mtx, mount_list, inprogress, kfd, flk>>
    /\ UNCHANGED ioVars
    /\ CASE kind = "stale" ->
              /\ th[t].tries < MaxStale
              /\ th' = [th EXCEPT ![t].tries = @ + 1, ![t].g.nreq = @ + 1]
              /\ UNCHANGED <<recs, work_dir>>
         [] kind = "err" ->
              /\ PutMountThen(t, Sentinel(th[t].op), e)
              /\ UNCHANGED work_dir
         [] kind = "full" ->
              /\ PutMountThen(t, IF th[t].op = "opendir" THEN 1 ELSE 0, th[t].errno)
              /\ work_dir' = IF th[t].op = "chdir"
                             THEN [work_dir EXCEPT ![p] = th[t].pbd]
                             ELSE work_dir

(***************************************************************************)
(* The public functions of the engine (pfs_api.cc): each repeats its       *)
(* operation while that ends with -EAGAIN and leaves through API_EXIT.     *)
(* Results are written by the name of the error, "0" for none, and an      *)
(* errno of "0" is one the call has not written.                           *)
(***************************************************************************)
error_number ==
    <<"EACCES", "EAGAIN", "EBADF", "EEXIST", "EFBIG", "EINVAL", "EISDIR",
      "EMFILE", "ENAMETOOLONG", "ENODEV", "ENOENT", "ENOTEMPTY", "ENOMEM",
      "ENOSPC", "ENOTDIR", "EXDEV", "EOVERFLOW", "EPFS_FILE_2MANY", "EROFS",
      "EBUSY", "ERANGE">>

errno_convert_raw(err) == err

\* errno_convert(err): the error if error_number lists it, EIO if not
errno_convert(err) == IF err \in SeqToSet(error_number) THEN err ELSE "EIO"

\* the errors an operation of the engine ends with: the listed ones and some
\* that are not listed
ErrNames == error_number \o <<"EIO", "ESTALE", "EINTR", "ENOTSUP">>
EngineErrs == SeqToSet(ErrNames)

\* a positive number for an error, where a function returns -err
PosErr(err) == CHOOSE i \in 1..Len(ErrNames) : ErrNames[i] = err

\* the functions that take a descriptor or a DIR, and the other ones
FdApiOps == {"pfs_close", "pfs_read", "pfs_pwrite", "pfs_ftruncate", "pfs_fstat",
             "pfs_posix_fallocate", "pfs_fallocate", "pfs_lseek", "pfs_readdir",
             "pfs_fsync"}
ApiOps == FdApiOps \cup {"pfs_open", "pfs_truncate", "pfs_unlink", "pfs_stat",
                         "pfs_mkdir", "pfs_opendir", "pfs_rmdir", "pfs_rename",
                         "pfs_chdir", "pfs_getcwd", "pfs_access"}

\* what the checks before the loop set err to: -EBADF for a descriptor that
\* is not valid, -EINVAL for another bad argument
ApiArgErrs(op) ==
    CASE op \in {"pfs_close", "pfs_readdir", "pfs_fsync"} -> {"EBADF"}
      [] op \in FdApiOps -> {"EBADF", "EINVAL"}
      [] OTHER -> {"EINVAL"}

\* the function is entered: err is -EAGAIN unless an argument is refused
ApiEnter(t, op, err) ==
    /\ op \in cfg.calls[t]
    /\ err \in {"EAGAIN"} \cup ApiArgErrs(op)
    /\ th[t].pc = "idle"
    /\ th' = [th EXCEPT ![t] = [IdleThread EXCEPT !.pc = "api_loop", !.op = op,
                                                  !.e = err]]
    /\ UNCHANGED mountVars

\* while (err == -EAGAIN) err = _pfs_...(): one turn, which ends with err
ApiTry(t, err) ==
    /\ th[t].pc = "api_loop"
    /\ Repeats(th[t].e)
    /\ err \in EngineErrs \cup {"0"}
    /\ err = "EAGAIN" => th[t].tries < MaxAgain
    /\ th' = [th EXCEPT ![t].e = err, ![t].tries = @ + 1]
    /\ UNCHANGED mountVars

\* API_EXIT(err) and the return; pfs_posix_fallocate returns -err and leaves
\* errno alone
ApiExit(t) ==
    LET err == th[t].e
        op == th[t].op
    IN
    /\ th[t].pc = "api_loop"
    /\ ~Repeats(err)
    /\ th' = [th EXCEPT ![t] =
                [Returned(t, 0, "0") EXCEPT
                    !.ret = IF err = "0" THEN 0
                            ELSE IF op = "pfs_posix_fallocate" THEN PosErr(err)
                            ELSE Sentinel(op),
                    !.errno = IF err = "0" \/ op = "pfs_posix_fallocate" THEN "0"
                              ELSE errno_convert(err),
                    !.tries = th[t].tries, !.e = err,
                    !.g.failed = err # "0"]]
    /\ UNCHANGED mountVars

(***************************************************************************)
(* The end of an fd operation                                              *)
(***************************************************************************)
\* the offset a call leaves when it runs alone on a file at offset ser:
\* read and write move it by the bytes they transferred, lseek sets it
SerAfter(ser, c) ==
    CASE c.op \in {"read", "write"} -> ser + c.total
      [] c.op = "lseek" /\ c.err = 0 ->
            (CASE c.whence = "SEEK_SET" -> c.off
               [] c.whence = "SEEK_CUR" -> ser + c.off
               [] OTHER -> c.total)
      [] OTHER -> ser

\* f_lseek_lock is unlocked if held, then pfsd_put_file unlocks the file
IoDone(t) ==
    LET f == th[t].file IN
    /\ th[t].pc = "io_done"
    /\ files' = [files EXCEPT
                   ![f].f_lseek_lock = IF @ = t THEN NoThread ELSE @,
                   ![f].rd = @ \ {t},
                   ![f].ser = SerAfter(@, th[t])]
    /\ th' = [th EXCEPT ![t].pc = "put_file",
                        ![t].ret = IF th[t].err # 0 THEN th[t].err ELSE th[t].total,
                        ![t].g.total = th[t].total]
    /\ UNCHANGED <<regVars, fdtbl, fdtbl_free_last, fdtbl_nopen, hist, fdtbl_mtx, disk, ncalls>>

\* the rest of pfsd_put_file: the reference goes under the table mutex,
\* then the mount is unlocked
PutFile(t) ==
    LET p == ProcOf(t)
        f == th[t].file
        r == th[t].mp
    IN
    /\ th[t].pc = "put_file"
    /\ fdtbl_mtx[p] = NoThread
    /\ files' = [files EXCEPT ![f].f_refcnt = @ - 1]
    /\ recs' = IF r = NoRec THEN recs ELSE RwUnlock(recs, r, t)
    /\ th' = [th EXCEPT ![t] = Returned(t, th[t].ret, th[t].errno)]
    /\ UNCHANGED <<cfg, pfsd, work_dir, s_inited, pfs_init_mtx, mount_list, inprogress, kfd, flk>>
    /\ UNCHANGED <<fdtbl, fdtbl_free_last, fdtbl_nopen, hist, fdtbl_mtx, disk, ncalls>>

(***************************************************************************)
(* fork: pfsd_atfork_child_post, the handler pfsd_sdk_init registers with  *)
(* pthread_atfork, runs in the child before fork returns there.  The model *)
(* follows the child: process p becomes the child, which starts as a copy  *)
(* of the memory of its parent; the parent lives on as the other process,  *)
(* which keeps the descriptors and the fcntl locks, for a child inherits   *)
(* the open descriptors of its parent and none of its record locks.        *)
(***************************************************************************)
\* the process that stands for the parent of p after p has forked
ParentOf(p) == CHOOSE q \in Procs : q # p

\* fdtbl_free_last = -1; memset(fdtbl, 0, sizeof(*fdtbl)); fdtbl_nopen = 0:
\* fdtbl is an array of pointers, hence *fdtbl is its first slot and the
\* memset clears that slot alone
pfsd_sdk_file_reinit(tbl) ==
    [tbl |-> [tbl EXCEPT ![0] = 0], last |-> -1, nopen |-> 0]

\* TAILQ_INIT(&mount_list): the list is empty, its records stay in memory
pfs_mount_atfork_child(ml, p) == [ml EXCEPT ![p] = <<>>]

\* fork() as the child sees it return: only the calling thread lives on
AtforkChildPost(t) ==
    LET p == ProcOf(t)
        q == ParentOf(p)
        re == pfsd_sdk_file_reinit(fdtbl[p])
        \* the object slot 0 pointed to: nothing of the child leads to it any more
        lost == fd_to_file(fdtbl[p], 0)
    IN
    /\ "fork" \in cfg.calls[t]
    /\ th[t].pc = "idle"
    /\ s_inited[p]
    /\ ~hist[p].forked
    /\ \A u \in Threads \ {t} : th[u].pc = "idle" /\ cfg.calls[u] = {}
    /\ pfs_init_mtx' = [pfs_init_mtx EXCEPT ![p] = NoThread]
    /\ fdtbl_mtx' = [fdtbl_mtx EXCEPT ![p] = NoThread]
    /\ fdtbl' = [fdtbl EXCEPT ![p] = re.tbl]
    /\ fdtbl_free_last' = [fdtbl_free_last EXCEPT ![p] = re.last]
    /\ fdtbl_nopen' = [fdtbl_nopen EXCEPT ![p] = re.nopen]
    /\ files' = IF lost = NoFileId THEN files ELSE pfsd_free_file(files, lost)
    /\ mount_list' = pfs_mount_atfork_child(mount_list, p)
    /\ kfd' = [kfd EXCEPT ![q] = kfd[p]]
    /\ flk' = [flk EXCEPT ![q] = flk[p], ![p] = [b \in PBDs |-> {}]]
    /\ hist' = [hist EXCEPT ![p].forked = TRUE,
                            ![p].inherited = LiveFds(fdtbl[p]),
                            ![p].freed = <<>>]
    /\ th' = [th EXCEPT ![t] = [IdleThread EXCEPT !.pc = "ret", !.op = "fork",
                                                 !.ret = 0]]
    /\ UNCHANGED <<cfg, pfsd, work_dir, s_inited, inprogress, recs, disk, ncalls>>

(***************************************************************************)
(* pfsd_readdir, pfsd_readdir_r.  A struct dirent is one unit of           *)
(* d_data_offset and d_data_size; an entry is told by its place in the     *)
(* directory, 1 the first, and a null struct dirent * is 0.  The cursor    *)
(* (d_next_ino, d_next_offset) is the place of the next entry in           *)
(* d_next_ino, with d_next_offset 0.                                       *)
(***************************************************************************)
\* the DIR pfsd_opendir hands out: memset 0, d_ino, d_next_ino, d_conn_id
OpenedDir(dino, first, conn) ==
    [NoDir EXCEPT !.d_ino = dino, !.d_next_ino = first, !.d_conn_id = conn]

\* the daemon's answers to READDIR at cursor c in a directory of n entries
\* that does not change: a page of 1 to MaxPage entries from c on, with the
\* cursor behind them, which is 0 or the place past the end once the last
\* entry is in the page; at the place past the end, PFSD_DIR_END.  Where
\* cfg.minpage is 0 the daemon may also answer r_res 0 with r_data_size 0,
\* a page without an entry, the cursor where it was
ReaddirAnswers(c, n) ==
    IF c > n
    THEN {[r_res |-> "PFSD_DIR_END", data |-> <<>>, r_ino |-> 0, r_offset |-> 0]}
    ELSE UNION {{[r_res |-> "0", data |-> [i \in 1..k |-> c + i - 1],
                  r_ino |-> nx, r_offset |-> 0] :
                     nx \in IF c + k <= n THEN {c + k} ELSE {0, n + 1}} :
                k \in cfg.minpage..Min(MaxPage, n - c + 1)}

\* the connection d_conn_id of the DIR of t is that of a mount of its
\* process: pfsd_umount has not closed it
DirConnOpen(t) ==
    \E r \in RecIds :
        /\ recs[r].live /\ recs[r].on_list /\ recs[r].proc = ProcOf(t)
        /\ recs[r].conn_id = th[t].dir.d_conn_id

\* the buffer has an entry left: it is copied out and the offset moves on
ReadBuffered_stuck(d) ==
    [d EXCEPT !.g_got = Append(@, d.d_data[d.d_data_offset + 1])]

ReadBuffered(d) ==
    [d EXCEPT !.d_data_offset = @ + 1,
              !.g_got = Append(@, d.d_data[d.d_data_offset + 1])]

\* what memcpy(entry, &dir->d_data[0], sizeof(*entry)) copies out: the
\* first entry of the buffer, or the zeroes of a buffer never written
FirstEntry(data) == IF data = <<>> THEN 0 ELSE data[1]

\* r_res == 0: the page is copied over the buffer and the first entry of the
\* buffer is copied out, d_data_offset being sizeof(*entry) whatever
\* r_data_size is
ReadPage(d, rsp) ==
    [d EXCEPT !.d_data_size = Len(rsp.data),
              !.d_data = rsp.data \o SubSeq(@, Len(rsp.data) + 1, Len(@)),
              !.d_data_offset = 1,
              !.d_next_ino = rsp.r_ino, !.d_next_offset = rsp.r_offset,
              !.g_delivered = @ \o rsp.data,
              !.g_got = Append(@, FirstEntry(rsp.data \o d.d_data))]

\* what the call hands back: pfsd_readdir_r err and *result, pfsd_readdir
\* the entry, or a null pointer when err != 0
ReaddirReturned(t, d, err, res, e) ==
    [th[t] EXCEPT !.pc = "ret", !.dir = d, !.errno = e, !.result = res,
                  !.ret = IF th[t].op = "readdir_r" THEN err
                          ELSE IF err # 0 THEN 0 ELSE res]

\* both calls up to the request: the checks of the arguments, the entry from
\* the buffer, the end of the directory
ReaddirEnter(t, op, argok) ==
    LET d == th[t].dir
        me == [IdleThread EXCEPT !.op = op, !.dir = d,
                  !.g.late = ~DirConnOpen(t),
                  !.g.drained = d.d_data_offset >= d.d_data_size,
                  !.g.next0 = d.d_next_ino]
        empty == [d EXCEPT !.d_data_offset = 0, !.d_data_size = 0]
    IN
    /\ op \in cfg.calls[t] \cap {"readdir", "readdir_r"}
    /\ th[t].pc = "idle"
    /\ d # NoDir
    /\ th' = [th EXCEPT ![t] =
          IF ~argok
          THEN [me EXCEPT !.pc = "ret", !.errno = "EINVAL", !.g.rejected = TRUE,
                          !.ret = IF op = "readdir_r" THEN -1 ELSE 0]
          ELSE IF d.d_data_offset < d.d_data_size
          THEN [me EXCEPT !.pc = "ret", !.ret = IF op = "readdir_r" THEN 0
                                                ELSE d.d_data[d.d_data_offset + 1],
                          !.result = d.d_data[d.d_data_offset + 1],
                          !.dir = ReadBuffered(d)]
          ELSE IF d.d_next_ino = 0
          THEN [me EXCEPT !.pc = "ret", !.ret = 0, !.result = 0, !.dir = empty]
          ELSE [me EXCEPT !.pc = "readdir_send", !.dir = empty]]
    /\ UNCHANGED mountVars

\* retry: pfsd_chnl_buffer_alloc, the READDIR request with the cursor
ReaddirSend(t, alloc) ==
    /\ th[t].pc = "readdir_send"
    /\ th' = [th EXCEPT ![t] =
          IF ~alloc THEN ReaddirReturned(t, th[t].dir, -1, 0, "ENOMEM")
          ELSE [th[t] EXCEPT !.pc = "readdir_recv", !.g.nreq = @ + 1,
                   !.req = [type |-> "readdir", len |-> 0,
                            off |-> th[t].dir.d_next_ino]]]
    /\ UNCHANGED mountVars

\* the daemon's answer: CHECK_STALE, r_res
ReaddirRecv(t, kind, e) ==
    LET d == th[t].dir IN
    /\ th[t].pc = "readdir_recv"
    /\ UNCHANGED mountVars
    /\ CASE kind = "stale" ->
              /\ th[t].tries < MaxStale
              /\ th' = [th EXCEPT ![t].pc = "readdir_send", ![t].tries = @ + 1,
                                  ![t].req = NoReq]
         [] kind = "err" ->
              th' = [th EXCEPT ![t] =
                        [ReaddirReturned(t, d, -1, 0, e) EXCEPT !.req = NoReq]]
         [] kind = "full" ->
              \* the daemon's own answer comes over a connection that is open
              /\ DirConnOpen(t)
              /\ \E rsp \in ReaddirAnswers(th[t].req.off, cfg.dirlen) :
                  /\ \/ rsp.r_res # "0"
                     \/ rsp.data # <<>>
                     \/ Len(d.g_got) - Len(d.g_delivered) < MaxEmpty
                  /\ th' = [th EXCEPT ![t] =
                        IF rsp.r_res # "0"
                        THEN [ReaddirReturned(t, d, 0, 0, "0") EXCEPT
                                 !.req = NoReq, !.g.dirend = TRUE]
                        ELSE [ReaddirReturned(t, ReadPage(d, rsp), 0,
                                              FirstEntry(rsp.data \o d.d_data),
                                              "0") EXCEPT
                                 !.req = NoReq]]
         [] OTHER -> FALSE

\* the caller takes the result and keeps the DIR for its next call
ReaddirReturn(t) ==
    /\ th[t].pc = "ret"
    /\ th[t].op \in {"readdir", "readdir_r"}
    /\ th' = [th EXCEPT ![t] = [IdleThread EXCEPT !.dir = th[t].dir]]
    /\ UNCHANGED mountVars

(***************************************************************************)
(* Paths as strings: pfsd_name_init and pfsd_normalize_path on sequences   *)
(* of characters.                                                          *)
(***************************************************************************)
PathChars == {"/", ".", "a"}

\* the strings of at most n characters
RECURSIVE Strings(_)
Strings(n) ==
    IF n = 0 THEN {<<>>}
    ELSE Strings(n - 1) \cup
         {Append(s, c) : s \in {x \in Strings(n - 1) : Len(x) = n - 1},
                         c \in PathChars}

\* the working directories pfsd_chdir leaves behind: none, or a normalized
\* path
WorkDirs == {<<>>, <<"/", "a", "/">>, <<"/", "a", "/", "a", "a">>}

\* pfsd_name_init on a string that is not a null pointer: the absolute path
\* or the errno; a relative path without a working directory fails with
\* errno as it was
NameInit(pbdpath, wd) ==
    LET abs == IF pbdpath[1] = "/" THEN pbdpath ELSE wd \o <<"/">> \o pbdpath
    IN IF pbdpath = <<>> THEN [err |-> "EINVAL", path |-> <<>>]
       ELSE IF pbdpath[1] # "/" /\ wd = <<>> THEN [err |-> "unset", path |-> <<>>]
       ELSE IF Len(abs) >= PFS_MAX_PATHLEN
       THEN [err |-> "ENAMETOOLONG", path |-> <<>>]
       ELSE [err |-> "0", path |-> abs]

\* the tokens strtok_r(.., "/", ..) yields one after the other: the runs of
\* characters other than '/'
RECURSIVE Tokenize(_, _, _)
Tokenize(s, i, cur) ==
    IF i > Len(s) THEN (IF cur = <<>> THEN <<>> ELSE <<cur>>)
    ELSE IF s[i] = "/"
    THEN (IF cur = <<>> THEN <<>> ELSE <<cur>>) \o Tokenize(s, i + 1, <<>>)
    ELSE Tokenize(s, i + 1, Append(cur, s[i]))

Dot == <<".">>
DotDot == <<".", ".">>

RECURSIVE NormalizeLoop_pop_first(_, _, _)
NormalizeLoop_pop_first(toks, i, dirs) ==
    IF i > Len(toks) THEN [err |-> "0", dirs |-> dirs]
    ELSE IF Len(toks[i]) >= PFS_MAX_NAMELEN
    THEN [err |-> "ENAMETOOLONG", dirs |-> dirs]
    ELSE IF toks[i] = DotDot
    THEN NormalizeLoop_pop_first(toks, i + 1,
             IF Len(dirs) > 0 THEN SubSeq(dirs, 1, Len(dirs) - 1) ELSE dirs)
    ELSE IF toks[i] = Dot THEN NormalizeLoop_pop_first(toks, i + 1, dirs)
    ELSE IF Len(dirs) >= PFS_MAX_PATHLEN
    THEN [err |-> "ENAMETOOLONG", dirs |-> dirs]
    ELSE NormalizeLoop_pop_first(toks, i + 1, Append(dirs, toks[i]))

\* the loop over the tokens: ".." takes the last of dirs away unless it is
\* the only one, "." is skipped, a name is put behind the others
RECURSIVE NormalizeLoop(_, _, _)
NormalizeLoop(toks, i, dirs) ==
    IF i > Len(toks) THEN [err |-> "0", dirs |-> dirs]
    ELSE IF Len(toks[i]) >= PFS_MAX_NAMELEN
    THEN [err |-> "ENAMETOOLONG", dirs |-> dirs]
    ELSE IF toks[i] = DotDot
    THEN NormalizeLoop(toks, i + 1,
             IF Len(dirs) > 1 THEN SubSeq(dirs, 1, Len(dirs) - 1) ELSE dirs)
    ELSE IF toks[i] = Dot THEN NormalizeLoop(toks, i + 1, dirs)
    ELSE IF Len(dirs) >= PFS_MAX_PATHLEN
    THEN [err |-> "ENAMETOOLONG", dirs |-> dirs]
    ELSE NormalizeLoop(toks, i + 1, Append(dirs, toks[i]))

\* strcat(pbdpath, "/"); strcat(pbdpath, dirs[i]) for every i
RECURSIVE JoinDirs(_)
JoinDirs(dirs) ==
    IF dirs = <<>> THEN <<>>
    ELSE <<"/">> \o dirs[1] \o JoinDirs(SubSeq(dirs, 2, Len(dirs)))

\* pfsd_normalize_path rewrites the string in place and returns 0 or
\* -ENAMETOOLONG, the string untouched; assert (ndirs > 0) ends the process
pfsd_normalize_path(pbdpath) ==
    LET r == NormalizeLoop(Tokenize(pbdpath, 1, <<>>), 1, <<>>) IN
    IF pbdpath = <<>> THEN [err |-> "0", path |-> pbdpath]
    ELSE IF r.err # "0" THEN [err |-> r.err, path |-> pbdpath]
    ELSE IF Len(r.dirs) = 0 THEN [err |-> "SIGABRT", path |-> pbdpath]
    ELSE [err |-> "0",
          path |-> JoinDirs(r.dirs) \o (IF Len(r.dirs) = 1 THEN <<"/">> ELSE <<>>)]

\* a caller makes a path absolute in a buffer of PFS_MAX_PATHLEN characters
NormalizeEnter(t, pbdpath, wd) ==
    LET n == NameInit(pbdpath, wd) IN
    /\ "normalize" \in cfg.calls[t]
    /\ th[t].pc = "idle"
    /\ th' = [th EXCEPT ![t] =
          IF n.err # "0"
          THEN [IdleThread EXCEPT !.pc = "ret", !.op = "normalize", !.ret = -1,
                                  !.errno = n.err, !.g.rejected = TRUE]
          ELSE [IdleThread EXCEPT !.pc = "normalize", !.op = "normalize",
                                  !.buf = n.path, !.g.log = <<n.path>>]]
    /\ UNCHANGED mountVars

\* pfsd_normalize_path on the buffer; the caller may pass the result once more
NormalizePath(t) ==
    LET r == pfsd_normalize_path(th[t].buf) IN
    /\ th[t].pc = "normalize"
    /\ th' = [th EXCEPT ![t] =
          IF r.err # "0"
          THEN [th[t] EXCEPT !.pc = "ret", !.ret = -1, !.errno = r.err]
          ELSE [th[t] EXCEPT !.buf = r.path, !.g.log = Append(@, r.path),
                             !.pc = IF Len(th[t].g.log) >= 2 THEN "ret"
                                    ELSE "normalize"]]
    /\ UNCHANGED mountVars

(***************************************************************************)
(* The embedded daemon (pfsd_main.cc): pfsd_start, pfsd_stop,              *)
(* pfsd_wait_stop, pfsd_is_started and the main thread of the daemon.      *)
(* main is where the main thread stands: "none" before pthread_create and  *)
(* after pthread_join, "loop" at the head of its loop, "wait" in           *)
(* sem_timedwait, "exit" behind the loop, "done" when it has returned.     *)
(* worker is the worker thread: "none", "created" and waiting for w_sem,   *)
(* "running", "exited".                                                    *)
(***************************************************************************)
\* the options callers pass
Opts == [o_workers : {0, 1, PFSD_WORKER_MAX + 1}, o_usleep : {-1, 0, 1001},
         o_pbdname : {"", "A"}]

sanity_check(opt) ==
    IF opt.o_workers < 1 \/ opt.o_workers > PFSD_WORKER_MAX THEN -1
    ELSE IF opt.o_usleep < 0 \/ opt.o_usleep > 1000 THEN -1
    ELSE IF opt.o_pbdname = "" THEN -1
    ELSE 0

\* what a call of the daemon's interface hands back
DaemonReturned(op, rv) == [IdleThread EXCEPT !.pc = "ret", !.op = op, !.ret = rv]

\* pfsd_start up to pfsd_pidfile_open: env and pidok are the outcomes of
\* pfsd_prepare_env, which sets up the worker, and of pfsd_pidfile_open
StartEnter(t, opt, env, pidok) ==
    /\ "pfsd_start" \in cfg.calls[t]
    /\ th[t].pc = "idle"
    /\ pfsd.starts < MaxStarts
    /\ IF pfsd.g_pfsd_started # 0
       THEN /\ th' = [th EXCEPT ![t] = [DaemonReturned("pfsd_start", -1) EXCEPT
                                           !.g.rejected = TRUE]]
            /\ UNCHANGED pfsd
       ELSE IF ~env
       THEN /\ th' = [th EXCEPT ![t] = DaemonReturned("pfsd_start", -1)]
            /\ UNCHANGED pfsd
       ELSE IF sanity_check(opt) # 0
       THEN /\ th' = [th EXCEPT ![t] = DaemonReturned("pfsd_start", -1)]
            /\ pfsd' = [pfsd EXCEPT !.worker = "created"]
       ELSE IF ~pidok
       THEN /\ th' = [th EXCEPT ![t] = DaemonReturned("pfsd_start", -1)]
            /\ pfsd' = [pfsd EXCEPT !.worker = "created", !.g_pfsd_stop = FALSE,
                                    !.g_pfsd_main_sem = 0, !.g_pfsd_pidfile = -1]
       ELSE /\ th' = [th EXCEPT ![t] = [IdleThread EXCEPT !.pc = "start_listen",
                                                         !.op = "pfsd_start"]]
            /\ pfsd' = [pfsd EXCEPT !.worker = "created", !.g_pfsd_stop = FALSE,
                                    !.g_pfsd_main_sem = 0, !.g_pfsd_pidfile = 3]
    /\ UNCHANGED <<cfg, work_dir, s_inited, pfs_init_mtx, mount_list, inprogress,
                   recs, kfd, flk, ioVars>>

\* the rest of pfsd_start: pfsd_chnl_listen, sem_post(&wk->w_sem),
\* pthread_create and the flag
StartListen(t, listenok, created) ==
    /\ th[t].pc = "start_listen"
    /\ IF ~listenok
       THEN /\ th' = [th EXCEPT ![t] = DaemonReturned("pfsd_start", -1)]
            /\ pfsd' = [pfsd EXCEPT !.g_pfsd_pidfile = -1]
       ELSE IF ~created
       THEN /\ th' = [th EXCEPT ![t] = DaemonReturned("pfsd_start", -1)]
            /\ pfsd' = [pfsd EXCEPT !.g_pfsd_pidfile = -1, !.worker = "running"]
       ELSE /\ th' = [th EXCEPT ![t] = DaemonReturned("pfsd_start", 0)]
            /\ pfsd' = [pfsd EXCEPT !.worker = "running", !.main = "loop",
                                    !.g_pfsd_started = 1, !.starts = @ + 1,
                                    !.up = TRUE]
    /\ UNCHANGED <<cfg, work_dir, s_inited, pfs_init_mtx, mount_list, inprogress,
                   recs, kfd, flk, ioVars>>

\* pfsd_stop: the flag and a post, at once
PfsdStop(t) ==
    /\ "pfsd_stop" \in cfg.calls[t]
    /\ th[t].pc = "idle"
    /\ th' = [th EXCEPT ![t] = [DaemonReturned("pfsd_stop", 0) EXCEPT
                                   !.g.tried = pfsd.g_pfsd_started # 0]]
    /\ pfsd' = [pfsd EXCEPT !.g_pfsd_stop = TRUE,
                            !.g_pfsd_main_sem = IF @ < MaxSem THEN @ + 1 ELSE @]
    /\ UNCHANGED <<cfg, work_dir, s_inited, pfs_init_mtx, mount_list, inprogress,
                   recs, kfd, flk, ioVars>>

\* pfsd_wait_stop up to pthread_join
WaitStopEnter(t) ==
    /\ "pfsd_wait_stop" \in cfg.calls[t]
    /\ th[t].pc = "idle"
    /\ th' = [th EXCEPT ![t] =
          IF pfsd.g_pfsd_started = 0
          THEN [DaemonReturned("pfsd_wait_stop", -1) EXCEPT !.g.rejected = TRUE]
          ELSE [IdleThread EXCEPT !.pc = "wait_join", !.op = "pfsd_wait_stop"]]
    /\ UNCHANGED mountVars

WaitStopJoin_keep(t) ==
    /\ th[t].pc = "wait_join"
    /\ pfsd.main = "done"
    /\ th' = [th EXCEPT ![t] = DaemonReturned("pfsd_wait_stop", 0)]
    /\ pfsd' = [pfsd EXCEPT !.main = "none", !.g_pfsd_pidfile = -1,
                            !.g_pfsd_stop = FALSE, !.up = FALSE]
    /\ UNCHANGED <<cfg, work_dir, s_inited, pfs_init_mtx, mount_list, inprogress,
                   recs, kfd, flk, ioVars>>

\* pthread_join returns when the main thread has: the pid file is closed and
\* the flags are cleared
WaitStopJoin(t) ==
    /\ th[t].pc = "wait_join"
    /\ pfsd.main = "done"
    /\ th' = [th EXCEPT ![t] = DaemonReturned("pfsd_wait_stop", 0)]
    /\ pfsd' = [pfsd EXCEPT !.main = "none", !.g_pfsd_pidfile = -1,
                            !.g_pfsd_started = 0, !.g_pfsd_stop = FALSE,
                            !.up = FALSE]
    /\ UNCHANGED <<cfg, work_dir, s_inited, pfs_init_mtx, mount_list, inprogress,
                   recs, kfd, flk, ioVars>>

PfsdIsStarted(t) ==
    /\ "pfsd_is_started" \in cfg.calls[t]
    /\ th[t].pc = "idle"
    /\ th' = [th EXCEPT ![t] = DaemonReturned("pfsd_is_started",
                                              pfsd.g_pfsd_started)]
    /\ UNCHANGED mountVars

\* pfsd_main_thread_entry: while (!g_pfsd_stop), the requests are recycled
MainLoop_forever ==
    /\ pfsd.main = "loop"
    /\ pfsd' = [pfsd EXCEPT !.main = "wait"]
    /\ UNCHANGED <<cfg, work_dir, s_inited, pfs_init_mtx, mount_list, inprogress,
                   recs, kfd, flk, th, ioVars>>

MainLoop ==
    /\ pfsd.main = "loop"
    /\ pfsd' = [pfsd EXCEPT !.main = IF pfsd.g_pfsd_stop THEN "exit" ELSE "wait"]
    /\ UNCHANGED <<cfg, work_dir, s_inited, pfs_init_mtx, mount_list, inprogress,
                   recs, kfd, flk, th, ioVars>>

\* sem_timedwait returns: it has taken a post, or the 5 seconds are over
MainWait ==
    /\ pfsd.main = "wait"
    /\ pfsd' = [pfsd EXCEPT !.main = "loop",
                            !.g_pfsd_main_sem = IF @ > 0 THEN @ - 1 ELSE @]
    /\ UNCHANGED <<cfg, work_dir, s_inited, pfs_init_mtx, mount_list, inprogress,
                   recs, kfd, flk, th, ioVars>>

\* behind the loop: pthread_join of the worker, pfsd_destroy_workers, return
MainExit ==
    /\ pfsd.main = "exit"
    /\ pfsd.worker = "exited"
    /\ pfsd' = [pfsd EXCEPT !.main = "done", !.worker = "none"]
    /\ UNCHANGED <<cfg, work_dir, s_inited, pfs_init_mtx, mount_list, inprogress,
                   recs, kfd, flk, th, ioVars>>

\* the worker leaves its loop when it finds g_pfsd_stop set
WorkerExit ==
    /\ pfsd.worker = "running"
    /\ pfsd.g_pfsd_stop
    /\ pfsd' = [pfsd EXCEPT !.worker = "exited"]
    /\ UNCHANGED <<cfg, work_dir, s_inited, pfs_init_mtx, mount_list, inprogress,
                   recs, kfd, flk, th, ioVars>>

\* the caller takes the result and is free to call again
Return(t) ==
    /\ th[t].pc = "ret"
    /\ th' = [th EXCEPT ![t] = IdleThread]
    /\ UNCHANGED mountVars

Next ==
    \E t \in Threads :
        \/ \E b \in cfg.pbds, h \in cfg.hostids, fl \in cfg.flagsets :
               MountEnter(t, b, h, fl)
        \/ MountMetaLock(t)
        \/ MountHostidLock(t)
        \/ \E c \in {0, 1} : MountConnect(t, c)
        \/ MountPost(t)
        \/ FindLookup(t)
        \/ FindLock(t)
        \/ FindPut(t)
        \/ PutRef(t)
        \/ \E b \in cfg.pbds, force \in BOOLEAN : UmountEnter(t, b, force)
        \/ \E e \in {0, -1} : UmountChnlClose(t, e)
        \/ CloseAllFiles(t)
        \/ UmountPost(t)
        \/ \E b \in cfg.pbds, h \in cfg.hostids, fl \in cfg.flagsets :
               RemountEnter(t, b, h, fl)
        \/ RemountPrepare(t)
        \/ \E res \in {0, -1} : RemountReconnect(t, res)
        \/ Return(t)

\* the registry under two threads of one process
Spec == InitReg /\ [][Next]_vars

\* the fence-file locks under two processes
SpecFence == InitFence /\ [][Next]_vars

\* pfsd_lseek on an open descriptor
NextSeek ==
    \E t \in Threads :
        \/ \E fd \in 0..(PFSD_MAX_NFD - 1), a \in Calls : FdEnter(t, fd, a)
        \/ GetFile(t)
        \/ FileLock(t)
        \/ MountRdLock(t)
        \/ LseekLock(t)
        \/ \E ub \in cfg.ubs, alloc \in cfg.allocs : LseekLocal(t, ub, alloc)
        \/ \E kind \in cfg.rsps : LseekRecv(t, kind)
        \/ IoDone(t)
        \/ PutFile(t)
        \/ Return(t)

\* read, pread, write, pwrite and lseek on an open descriptor
NextIO ==
    \E t \in Threads :
        \/ \E fd \in 0..(PFSD_MAX_NFD - 1), a \in Calls : FdEnter(t, fd, a)
        \/ GetFile(t)
        \/ FileLock(t)
        \/ MountRdLock(t)
        \/ LseekLock(t)
        \/ \E alloc \in cfg.allocs : Chunk(t, alloc)
        \/ \E kind \in cfg.rsps : ChunkRecv(t, kind)
        \/ \E ub \in cfg.ubs, alloc \in cfg.allocs : LseekLocal(t, ub, alloc)
        \/ \E kind \in cfg.rsps : LseekRecv(t, kind)
        \/ IoDone(t)
        \/ PutFile(t)
        \/ Return(t)

\* mount, umount, open, close and every fd operation
NextFd ==
    \E t \in Threads :
        \/ \E b \in cfg.pbds, h \in cfg.hostids, fl \in cfg.flagsets :
               MountEnter(t, b, h, fl)
        \/ MountHostidLock(t)
        \/ \E c \in {0, 1} : MountConnect(t, c)
        \/ MountPost(t)
        \/ FindLookup(t)
        \/ FindLock(t)
        \/ FindPut(t)
        \/ PutRef(t)
        \/ \E b \in cfg.pbds, force \in BOOLEAN : UmountEnter(t, b, force)
        \/ \E e \in {0, -1} : UmountChnlClose(t, e)
        \/ CloseAllFiles(t)
        \/ UmountPost(t)
        \/ \E b \in cfg.pbds, fl \in cfg.oflags : OpenEnter(t, b, fl)
        \/ OpenAllocFd(t)
        \/ \E kind \in cfg.rsps : OpenRecv(t, kind)
        \/ \E fd \in 0..(PFSD_MAX_NFD - 1) : CloseEnter(t, fd)
        \/ CloseGet(t)
        \/ CloseLock(t)
        \/ CloseFile(t)
        \/ ClosePut(t)
        \/ \E fd \in 0..(PFSD_MAX_NFD - 1), a \in Calls : FdEnter(t, fd, a)
        \/ GetFile(t)
        \/ FileLock(t)
        \/ MountRdLock(t)
        \/ LseekLock(t)
        \/ \E alloc \in cfg.allocs : Chunk(t, alloc)
        \/ \E kind \in cfg.rsps : ChunkRecv(t, kind)
        \/ \E ub \in cfg.ubs, alloc \in cfg.allocs : LseekLocal(t, ub, alloc)
        \/ \E kind \in cfg.rsps : LseekRecv(t, kind)
        \/ \E alloc \in cfg.allocs : SimpleSend(t, alloc)
        \/ \E kind \in cfg.rsps : SimpleRecv(t, kind)
        \/ IoDone(t)
        \/ PutFile(t)
        \/ Return(t)

\* open, close and fstat on the descriptors of one mount
NextTbl ==
    \E t \in Threads :
        \/ FindLookup(t)
        \/ FindLock(t)
        \/ PutRef(t)
        \/ \E b \in cfg.pbds, fl \in cfg.oflags : OpenEnter(t, b, fl)
        \/ OpenAllocFd(t)
        \/ \E kind \in cfg.rsps : OpenRecv(t, kind)
        \/ \E fd \in 0..(PFSD_MAX_NFD - 1) : CloseEnter(t, fd)
        \/ CloseGet(t)
        \/ CloseLock(t)
        \/ CloseFile(t)
        \/ ClosePut(t)
        \/ \E fd \in 0..(PFSD_MAX_NFD - 1), a \in Calls : FdEnter(t, fd, a)
        \/ GetFile(t)
        \/ FileLock(t)
        \/ MountRdLock(t)
        \/ \E alloc \in cfg.allocs : SimpleSend(t, alloc)
        \/ \E kind \in cfg.rsps : SimpleRecv(t, kind)
        \/ IoDone(t)
        \/ PutFile(t)
        \/ Return(t)

\* open, close, the fd operations and the name-based operations of one thread
NextRo ==
    \E t \in Threads :
        \/ FindLookup(t)
        \/ FindLock(t)
        \/ PutRef(t)
        \/ \E b \in cfg.pbds, fl \in cfg.oflags : OpenEnter(t, b, fl)
        \/ OpenAllocFd(t)
        \/ \E kind \in cfg.rsps : OpenRecv(t, kind)
        \/ \E fd \in 0..(PFSD_MAX_NFD - 1) : CloseEnter(t, fd)
        \/ CloseGet(t)
        \/ CloseLock(t)
        \/ CloseFile(t)
        \/ \E fd \in 0..(PFSD_MAX_NFD - 1), a \in Calls : FdEnter(t, fd, a)
        \/ GetFile(t)
        \/ FileLock(t)
        \/ MountRdLock(t)
        \/ LseekLock(t)
        \/ \E alloc \in cfg.allocs : Chunk(t, alloc)
        \/ \E kind \in cfg.rsps : ChunkRecv(t, kind)
        \/ \E alloc \in cfg.allocs : SimpleSend(t, alloc)
        \/ \E kind \in cfg.rsps : SimpleRecv(t, kind)
        \/ IoDone(t)
        \/ PutFile(t)
        \/ \E a \in NameCalls : NameEnter(t, a)
        \/ \E alloc \in cfg.allocs : NameBody(t, alloc)
        \/ \E kind \in cfg.rsps, e \in cfg.derrs : NameRecv(t, kind, e)
        \/ Return(t)

\* "A" is mounted read-only and one descriptor is open: one thread unmounts,
\* remounts and mounts "A", and a mount may fail, while a second one opens
\* and closes descriptors and unlinks by name; both use the descriptors
InitRef ==
    /\ MountedAndOpen({"RD"}, {}, 0, <<Hole>>)
    /\ cfg = [AllArgs EXCEPT !.pbds = {"A"}, !.hostids = {1},
                             !.flagsets = {{"RD", "WR"}},
                             !.ops = {"fstat"}, !.argoks = {TRUE},
                             !.rsps = {"full", "err"}, !.room = 1,
                             !.maxopen = 1, !.nameops = {"unlink"},
                             !.paths = {AbsPath("A")}]
             @@ [calls |-> [t \in Threads |->
                     CASE t = "a1" -> {"umount", "umount_force", "mount",
                                       "remount", "fstat"}
                       [] t = "a2" -> {"open", "close", "fstat", "unlink"}
                       [] OTHER -> {}]]

NextRef ==
    \E t \in Threads :
        \/ \E b \in cfg.pbds, h \in cfg.hostids, fl \in cfg.flagsets :
               MountEnter(t, b, h, fl)
        \/ MountMetaLock(t)
        \/ MountHostidLock(t)
        \/ \E c \in {0, 1} : MountConnect(t, c)
        \/ MountPost(t)
        \/ FindLookup(t)
        \/ FindLock(t)
        \/ FindPut(t)
        \/ PutRef(t)
        \/ \E b \in cfg.pbds, force \in BOOLEAN : UmountEnter(t, b, force)
        \/ \E e \in {0, -1} : UmountChnlClose(t, e)
        \/ CloseAllFiles(t)
        \/ UmountPost(t)
        \/ \E b \in cfg.pbds, h \in cfg.hostids, fl \in cfg.flagsets :
               RemountEnter(t, b, h, fl)
        \/ RemountPrepare(t)
        \/ \E res \in {0, -1} : RemountReconnect(t, res)
        \/ \E b \in cfg.pbds, fl \in cfg.oflags : OpenEnter(t, b, fl)
        \/ OpenAllocFd(t)
        \/ \E kind \in cfg.rsps : OpenRecv(t, kind)
        \/ \E fd \in 0..(PFSD_MAX_NFD - 1) : CloseEnter(t, fd)
        \/ CloseGet(t)
        \/ CloseLock(t)
        \/ CloseFile(t)
        \/ ClosePut(t)
        \/ \E fd \in 0..(PFSD_MAX_NFD - 1), a \in Calls : FdEnter(t, fd, a)
        \/ GetFile(t)
        \/ FileLock(t)
        \/ MountRdLock(t)
        \/ \E alloc \in cfg.allocs : SimpleSend(t, alloc)
        \/ \E kind \in cfg.rsps : SimpleRecv(t, kind)
        \/ IoDone(t)
        \/ PutFile(t)
        \/ \E a \in NameCalls : NameEnter(t, a)
        \/ \E alloc \in cfg.allocs : NameBody(t, alloc)
        \/ \E kind \in cfg.rsps, e \in cfg.derrs : NameRecv(t, kind, e)
        \/ Return(t)

\* the references to a mount under every kind of call
SpecRef == InitRef /\ [][NextRef]_vars

\* "A" is mounted and one descriptor is open on it: one thread mounts "B",
\* opens files on both and unmounts either, the channel close failing or
\* not, while a second one calls fstat
InitTwo ==
    /\ MountedAndOpen({"RD", "WR", "TOOL"}, {}, 0, <<Hole>>)
    /\ cfg = [AllArgs EXCEPT !.pbds = {"A", "B"}, !.hostids = {1},
                             !.flagsets = {{"RD", "WR", "TOOL"}},
                             !.ops = {"fstat"}, !.argoks = {TRUE},
                             !.rsps = {"full"}, !.maxopen = 2]
             @@ [calls |-> [t \in Threads |->
                     CASE t = "a1" -> {"mount", "open", "umount", "umount_force"}
                       [] t = "a2" -> {"fstat"}
                       [] OTHER -> {}]]

NextTwo ==
    \E t \in Threads :
        \/ \E b \in cfg.pbds, h \in cfg.hostids, fl \in cfg.flagsets :
               MountEnter(t, b, h, fl)
        \/ MountHostidLock(t)
        \/ \E c \in {0, 1} : MountConnect(t, c)
        \/ MountPost(t)
        \/ FindLookup(t)
        \/ FindLock(t)
        \/ PutRef(t)
        \/ \E b \in cfg.pbds, force \in BOOLEAN : UmountEnter(t, b, force)
        \/ \E e \in {0, -1} : UmountChnlClose(t, e)
        \/ CloseAllFiles(t)
        \/ UmountPost(t)
        \/ \E b \in cfg.pbds, fl \in cfg.oflags : OpenEnter(t, b, fl)
        \/ OpenAllocFd(t)
        \/ \E kind \in cfg.rsps : OpenRecv(t, kind)
        \/ \E fd \in 0..(PFSD_MAX_NFD - 1), a \in Calls : FdEnter(t, fd, a)
        \/ GetFile(t)
        \/ FileLock(t)
        \/ MountRdLock(t)
        \/ \E alloc \in cfg.allocs : SimpleSend(t, alloc)
        \/ \E kind \in cfg.rsps : SimpleRecv(t, kind)
        \/ IoDone(t)
        \/ PutFile(t)
        \/ Return(t)

\* two mounts of one process, one of them unmounted
SpecTwo == InitTwo /\ [][NextTwo]_vars

\* nothing is mounted: two threads of p1 and one of p2 mount "A" as host 1,
\* read-only, as a writer or as a tool, or a PBD whose name is too long; one
\* thread of each process unmounts as well
InitFail ==
    /\ InitMount
    /\ cfg = [AllArgs EXCEPT !.pbds = {"A", LongPbd}, !.hostids = {1}]
             @@ [calls |-> [t \in Threads |->
                     CASE t = "a1" -> {"mount", "umount"}
                       [] t = "a2" -> {"mount"}
                       [] t = "b1" -> {"mount", "umount"}
                       [] OTHER -> {}]]

NextFail ==
    \E t \in Threads :
        \/ \E b \in cfg.pbds, h \in cfg.hostids, fl \in cfg.flagsets :
               MountEnter(t, b, h, fl)
        \/ MountMetaLock(t)
        \/ MountHostidLock(t)
        \/ \E c \in {0, 1} : MountConnect(t, c)
        \/ MountPost(t)
        \/ FindLookup(t)
        \/ FindLock(t)
        \/ PutRef(t)
        \/ \E b \in cfg.pbds : UmountEnter(t, b, FALSE)
        \/ \E e \in {0, -1} : UmountChnlClose(t, e)
        \/ CloseAllFiles(t)
        \/ UmountPost(t)
        \/ Return(t)

\* the mounts that fail, next to those of the same and of another process
SpecFail == InitFail /\ [][NextFail]_vars

\* nothing is mounted: a thread of each process mounts "A" as a writer, with
\* or without TOOL, as host 0 or 1, and unmounts it
InitZero ==
    /\ InitMount
    /\ cfg = [AllArgs EXCEPT !.pbds = {"A"}, !.hostids = {0, 1},
                             !.flagsets = {{"RD", "WR"}, {"RD", "WR", "TOOL"}}]
             @@ [calls |-> [t \in Threads |->
                     IF t \in {"a1", "b1"} THEN {"mount", "umount"} ELSE {}]]

\* the writers of two processes, host 0 among them
SpecZero == InitZero /\ [][NextFail]_vars

\* every call that names a PBD, made by one thread
NextDev ==
    \E t \in Threads :
        \/ FindLookup(t)
        \/ FindLock(t)
        \/ PutRef(t)
        \/ \E b \in cfg.pbds, force \in BOOLEAN : UmountEnter(t, b, force)
        \/ \E e \in {0, -1} : UmountChnlClose(t, e)
        \/ CloseAllFiles(t)
        \/ UmountPost(t)
        \/ \E b \in cfg.pbds, h \in cfg.hostids, fl \in cfg.flagsets :
               RemountEnter(t, b, h, fl)
        \/ RemountPrepare(t)
        \/ \E res \in {0, -1} : RemountReconnect(t, res)
        \/ \E b \in cfg.pbds, fl \in cfg.oflags : OpenEnter(t, b, fl)
        \/ OpenAllocFd(t)
        \/ \E kind \in cfg.rsps : OpenRecv(t, kind)
        \/ \E a \in NameCalls : NameEnter(t, a)
        \/ \E alloc \in cfg.allocs : NameBody(t, alloc)
        \/ \E kind \in cfg.rsps, e \in cfg.derrs : NameRecv(t, kind, e)
        \/ Return(t)

\* the calls on a PBD that is mounted, unmounted or was never mounted
SpecDev == InitDev /\ [][NextDev]_vars

\* mount, umount and remount, one thread in a process
NextRem ==
    \E t \in Threads :
        \/ \E b \in cfg.pbds, h \in cfg.hostids, fl \in cfg.flagsets :
               MountEnter(t, b, h, fl)
        \/ MountMetaLock(t)
        \/ MountHostidLock(t)
        \/ \E c \in {0, 1} : MountConnect(t, c)
        \/ MountPost(t)
        \/ FindLookup(t)
        \/ FindLock(t)
        \/ PutRef(t)
        \/ \E b \in cfg.pbds, force \in BOOLEAN : UmountEnter(t, b, force)
        \/ \E e \in {0, -1} : UmountChnlClose(t, e)
        \/ CloseAllFiles(t)
        \/ UmountPost(t)
        \/ \E b \in cfg.pbds, h \in cfg.hostids, fl \in cfg.flagsets :
               RemountEnter(t, b, h, fl)
        \/ RemountPrepare(t)
        \/ \E res \in {0, -1} : RemountReconnect(t, res)
        \/ Return(t)

\* pfsd_remount next to the mounts and umounts of a second process
SpecRem == InitRem /\ [][NextRem]_vars

\* pfsd_mount with the empty name
SpecName == InitName /\ [][NextRem]_vars

\* one thread opens and closes a descriptor of a mount and calls four of the
\* public functions of the engine, whose operations end with -EAGAIN among
\* other results, while a second thread calls fstat on the descriptor
InitAgain ==
    /\ MountedAndOpen({"RD", "WR", "TOOL"}, {}, 0, <<Hole>>)
    /\ cfg = [AllArgs EXCEPT !.pbds = {"A"}, !.ops = {"fstat"}, !.maxopen = 1,
                             !.argoks = {TRUE}, !.rsps = {"full", "err"}]
             @@ [calls |-> [t \in Threads |->
                     CASE t = "a1" -> {"open", "close", "pfs_open", "pfs_close",
                                       "pfs_opendir", "pfs_posix_fallocate"}
                       [] t = "a2" -> {"fstat"}
                       [] OTHER -> {}]]

\* the loops on -EAGAIN of the engine's functions and of pfsd_close
NextAgain ==
    \E t \in Threads :
        \/ \E op \in ApiOps, err \in EngineErrs : ApiEnter(t, op, err)
        \/ \E err \in EngineErrs \cup {"0"} : ApiTry(t, err)
        \/ ApiExit(t)
        \/ FindLookup(t)
        \/ FindLock(t)
        \/ PutRef(t)
        \/ \E b \in cfg.pbds, fl \in cfg.oflags : OpenEnter(t, b, fl)
        \/ OpenAllocFd(t)
        \/ \E kind \in cfg.rsps : OpenRecv(t, kind)
        \/ \E fd \in 0..(PFSD_MAX_NFD - 1) : CloseEnter(t, fd)
        \/ CloseGet(t)
        \/ CloseLock(t)
        \/ CloseFile(t)
        \/ ClosePut(t)
        \/ \E fd \in 0..(PFSD_MAX_NFD - 1), a \in Calls : FdEnter(t, fd, a)
        \/ GetFile(t)
        \/ FileLock(t)
        \/ MountRdLock(t)
        \/ \E alloc \in cfg.allocs : SimpleSend(t, alloc)
        \/ \E kind \in cfg.rsps : SimpleRecv(t, kind)
        \/ PutFile(t)
        \/ Return(t)

SpecAgain == InitAgain /\ [][NextAgain]_vars

\* a process with "A" mounted for writing and a file open on it opens and
\* closes files, then forks once; the child calls fstat on the descriptors
\* of its parent, the name-based calls, open, close and mount
InitFork ==
    /\ MountedAndOpen({"RD", "WR"}, {}, 0, <<Hole>>)
    /\ cfg = [AllArgs EXCEPT !.pbds = {"A"}, !.hostids = {1},
                 !.flagsets = {{"RD"}, {"RD", "WR"}}, !.maxopen = 2,
                 !.ops = {"fstat"}, !.argoks = {TRUE},
                 !.rsps = {"full", "err"},
                 !.nameops = {"stat", "unlink"},
                 !.paths = {AbsPath("A")}]
             @@ [calls |-> [t \in Threads |->
                     IF t = "a1"
                     THEN {"fork", "mount", "open", "close", "fstat", "stat",
                           "unlink"}
                     ELSE {}]]

NextFork ==
    \E t \in Threads :
        \/ AtforkChildPost(t)
        \/ \E b \in cfg.pbds, h \in cfg.hostids, fl \in cfg.flagsets :
               MountEnter(t, b, h, fl)
        \/ MountMetaLock(t)
        \/ MountHostidLock(t)
        \/ \E c \in {0, 1} : MountConnect(t, c)
        \/ MountPost(t)
        \/ FindLookup(t)
        \/ FindLock(t)
        \/ PutRef(t)
        \/ \E b \in cfg.pbds, fl \in cfg.oflags : OpenEnter(t, b, fl)
        \/ OpenAllocFd(t)
        \/ \E kind \in cfg.rsps : OpenRecv(t, kind)
        \/ \E fd \in 0..(PFSD_MAX_NFD - 1) : CloseEnter(t, fd)
        \/ CloseGet(t)
        \/ CloseLock(t)
        \/ CloseFile(t)
        \/ \E fd \in 0..(PFSD_MAX_NFD - 1), a \in Calls : FdEnter(t, fd, a)
        \/ GetFile(t)
        \/ FileLock(t)
        \/ MountRdLock(t)
        \/ \E alloc \in cfg.allocs : SimpleSend(t, alloc)
        \/ \E kind \in cfg.rsps : SimpleRecv(t, kind)
        \/ IoDone(t)
        \/ PutFile(t)
        \/ \E a \in NameCalls : NameEnter(t, a)
        \/ \E alloc \in cfg.allocs : NameBody(t, alloc)
        \/ \E kind \in cfg.rsps, e \in cfg.derrs : NameRecv(t, kind, e)
        \/ Return(t)

\* a process that forks, followed into the child
SpecFork == InitFork /\ [][NextFork]_vars

\* one thread holds the DIR of a directory of 0 to MaxDir entries, as
\* pfsd_opendir has made it, and reads it with pfsd_readdir and
\* pfsd_readdir_r, with good and bad arguments
InitDir ==
    /\ RegistryAndTable({"RD"}, {}, 0)
    /\ work_dir = [p \in Procs |-> ""]
    /\ disk = <<Hole>>
    /\ ncalls = 0
    /\ \E n \in 0..MaxDir :
          /\ cfg = [AllArgs EXCEPT !.pbds = {"A"}, !.dirlen = n,
                       !.argoks = BOOLEAN, !.rsps = {"full", "err", "stale"},
                       !.allocs = BOOLEAN, !.derrs = {"ENOENT", "EIO"}]
                   @@ [calls |-> [t \in Threads |->
                           IF t = "a1" THEN {"readdir", "readdir_r"} ELSE {}]]
          \* o_first_ino: the first entry, or of a directory without
          \* entries 0 or the place past the end
          /\ \E first \in IF n = 0 THEN {0, 1} ELSE {1} :
                th = [t \in Threads |->
                        IF t = "a1"
                        THEN [IdleThread EXCEPT !.dir = OpenedDir(1, first, 1)]
                        ELSE IdleThread]

NextDir ==
    \E t \in Threads :
        \/ \E op \in {"readdir", "readdir_r"}, ok \in cfg.argoks :
               ReaddirEnter(t, op, ok)
        \/ \E alloc \in cfg.allocs : ReaddirSend(t, alloc)
        \/ \E kind \in cfg.rsps, e \in cfg.derrs : ReaddirRecv(t, kind, e)
        \/ ReaddirReturn(t)

\* one DIR read to its end and beyond
SpecDir == InitDir /\ [][NextDir]_vars

\* one thread reads the DIR of a directory of 0 to MaxDir entries from a
\* daemon that may answer r_res 0 with r_data_size 0
InitPage ==
    /\ RegistryAndTable({"RD"}, {}, 0)
    /\ work_dir = [p \in Procs |-> ""]
    /\ disk = <<Hole>>
    /\ ncalls = 0
    /\ \E n \in 0..MaxDir :
          /\ cfg = [AllArgs EXCEPT !.pbds = {"A"}, !.dirlen = n,
                       !.minpage = 0,
                       !.argoks = {TRUE}, !.rsps = {"full", "err"},
                       !.allocs = BOOLEAN, !.derrs = {"EIO"}]
                   @@ [calls |-> [t \in Threads |->
                           IF t = "a1" THEN {"readdir", "readdir_r"} ELSE {}]]
          /\ \E first \in IF n = 0 THEN {0, 1} ELSE {1} :
                th = [t \in Threads |->
                        IF t = "a1"
                        THEN [IdleThread EXCEPT !.dir = OpenedDir(1, first, 1)]
                        ELSE IdleThread]

SpecPage == InitPage /\ [][NextDir]_vars

\* "A" is mounted and a thread holds the DIR of a directory of MaxDir
\* entries, which it reads while another thread unmounts "A"; buffers may be
\* short, and the channel's error is ENODEV
InitGone ==
    /\ RegistryAndTable({"RD"}, {}, 0)
    /\ work_dir = [p \in Procs |-> ""]
    /\ disk = <<Hole>>
    /\ ncalls = 0
    /\ cfg = [AllArgs EXCEPT !.pbds = {"A"}, !.dirlen = MaxDir,
                 !.argoks = {TRUE}, !.rsps = {"full", "err"},
                 !.allocs = BOOLEAN, !.derrs = {"ENODEV"}]
             @@ [calls |-> [t \in Threads |->
                     CASE t = "a1" -> {"umount"}
                       [] t = "a2" -> {"readdir", "readdir_r"}
                       [] OTHER -> {}]]
    /\ th = [t \in Threads |->
                IF t = "a2"
                THEN [IdleThread EXCEPT !.dir = OpenedDir(1, 1, 1)]
                ELSE IdleThread]

NextGone ==
    \E t \in Threads :
        \/ FindLookup(t)
        \/ FindLock(t)
        \/ PutRef(t)
        \/ \E b \in cfg.pbds : UmountEnter(t, b, FALSE)
        \/ \E e \in {0, -1} : UmountChnlClose(t, e)
        \/ CloseAllFiles(t)
        \/ UmountPost(t)
        \/ \E op \in {"readdir", "readdir_r"}, ok \in cfg.argoks :
               ReaddirEnter(t, op, ok)
        \/ \E alloc \in cfg.allocs : ReaddirSend(t, alloc)
        \/ \E kind \in cfg.rsps, e \in cfg.derrs : ReaddirRecv(t, kind, e)
        \/ ReaddirReturn(t)
        \/ th[t].dir = NoDir /\ Return(t)

\* a DIR that outlives its mount
SpecGone == InitGone /\ [][NextGone]_vars

\* one thread makes paths absolute and normalizes them, twice over
InitNorm ==
    /\ InitMount
    /\ cfg = AllArgs @@ [calls |-> [t \in Threads |->
                            IF t = "a1" THEN {"normalize"} ELSE {}]]

NextNorm ==
    \E t \in Threads :
        \/ \E p \in Strings(MaxPathChars), wd \in WorkDirs :
               NormalizeEnter(t, p, wd)
        \/ NormalizePath(t)
        \/ Return(t)

\* pfsd_name_init and pfsd_normalize_path on every short string
SpecNorm == InitNorm /\ [][NextNorm]_vars

\* one thread starts the daemon, asks whether it is started and waits for
\* its end, a second thread stops it and asks
InitDaemon ==
    /\ InitMount
    /\ cfg = AllArgs @@ [calls |-> [t \in Threads |->
                 CASE t = "a1" -> {"pfsd_start", "pfsd_wait_stop", "pfsd_is_started"}
                   [] t = "a2" -> {"pfsd_stop", "pfsd_is_started"}
                   [] OTHER -> {}]]

DaemonCalls ==
    \E t \in Threads :
        \/ \E opt \in Opts, env \in BOOLEAN, pidok \in BOOLEAN :
               StartEnter(t, opt, env, pidok)
        \/ \E listenok \in BOOLEAN, created \in BOOLEAN :
               StartListen(t, listenok, created)
        \/ PfsdStop(t)
        \/ WaitStopEnter(t)
        \/ WaitStopJoin(t)
        \/ PfsdIsStarted(t)
        \/ Return(t)

NextDaemon ==
    \/ DaemonCalls
    \/ MainLoop
    \/ MainWait
    \/ MainExit
    \/ WorkerExit

SpecDaemon == InitDaemon /\ [][NextDaemon]_vars

\* the threads of the daemon are scheduled, and so is a thread in pthread_join
SpecDaemonLive ==
    /\ InitDaemon /\ [][NextDaemon]_vars
    /\ WF_vars(MainLoop) /\ WF_vars(MainWait) /\ WF_vars(MainExit)
    /\ WF_vars(WorkerExit)
    /\ \A t \in Threads : WF_vars(WaitStopJoin(t))

\* the slots on the free list of a table, from its head on, n at most
RECURSIVE FreeChain(_, _, _)
FreeChain(tbl, head, n) ==
    IF n = 0 \/ head \notin DOMAIN tbl THEN <<>>
    ELSE <<head>> \o FreeChain(tbl, FreeLink(tbl[head]), n - 1)

\* the link behind the last slot of the chain
ChainEnd(tbl, head, chain) ==
    IF chain = <<>> THEN head ELSE FreeLink(tbl[chain[Len(chain)]])

\* the fd table of every process is what fd_get_free and fd_put_free keep
\* it to be
TableSound ==
    \A p \in Procs :
        LET tbl == fdtbl[p]
            live == LiveFds(tbl)
            chain == FreeChain(tbl, fdtbl_free_last[p], PFSD_MAX_NFD + 1)
        IN
        /\ \A fd \in live :
              /\ files[fd_to_file(tbl, fd)].live
              /\ files[fd_to_file(tbl, fd)].f_fd = fd
        /\ \A i, j \in 1..Len(chain) : i # j => chain[i] # chain[j]
        /\ ChainEnd(tbl, fdtbl_free_last[p], chain) = -1
        /\ SeqToSet(chain) = {fd \in DOMAIN tbl : fd < hist[p].peak} \ live
        /\ fdtbl_nopen[p] = Cardinality(live)

\* callers that close a descriptor from two threads while pfsd_open may
\* fail: one thread opens and closes, a second closes any descriptor
\* pfsd_open has returned
InitReclose ==
    /\ MountedAndOpen({"RD", "WR", "TOOL"}, {}, 0, <<Hole>>)
    /\ cfg = [AllArgs EXCEPT !.pbds = {"A"}, !.ops = {"fstat"},
                             !.argoks = {TRUE}, !.rsps = {"full", "err"},
                             !.maxopen = 1, !.stale = TRUE]
             @@ [calls |-> [t \in Threads |->
                     CASE t = "a1" -> {"open", "close"}
                       [] t = "a2" -> {"close"}
                       [] OTHER -> {}]]

\* open and close only
NextReclose ==
    \E t \in Threads :
        \/ FindLookup(t)
        \/ FindLock(t)
        \/ PutRef(t)
        \/ \E b \in cfg.pbds, fl \in cfg.oflags : OpenEnter(t, b, fl)
        \/ OpenAllocFd(t)
        \/ \E kind \in cfg.rsps : OpenRecv(t, kind)
        \/ \E fd \in 0..(PFSD_MAX_NFD - 1) : CloseEnter(t, fd)
        \/ CloseGet(t)
        \/ CloseLock(t)
        \/ CloseFile(t)
        \/ ClosePut(t)
        \/ Return(t)

SpecReclose == InitReclose /\ [][NextReclose]_vars

\* callers that keep descriptors after their close: one thread opens and
\* closes, a second closes and calls fstat, with a good and with a null st,
\* on any descriptor pfsd_open has returned
InitClosed ==
    /\ MountedAndOpen({"RD", "WR", "TOOL"}, {}, 0, <<Hole>>)
    /\ cfg = [AllArgs EXCEPT !.pbds = {"A"}, !.ops = {"fstat"},
                             !.argoks = BOOLEAN, !.rsps = {"full"},
                             !.stale = TRUE]
             @@ [calls |-> [t \in Threads |->
                     CASE t = "a1" -> {"open", "close"}
                       [] t = "a2" -> {"close", "fstat"}
                       [] OTHER -> {}]]

SpecClosed == InitClosed /\ [][NextTbl]_vars

\* one thread reads, writes, seeks to the end and calls fstat on a
\* descriptor with or without O_APPEND; the daemon answers ESTALE up to
\* MaxRetries times in a call, and buffers may run out at any request
InitStale ==
    /\ \E fflags \in {{}, {"APPEND"}} :
           MountedAndOpen({"RD", "WR", "TOOL"}, fflags, 0, <<Hole>>)
    /\ cfg = [AllArgs EXCEPT !.pbds = {"A"},
                 !.ops = {"pread", "write", "lseek", "fstat"},
                 !.lens = {1, MaxLen}, !.offs = {0}, !.seeks = {0},
                 !.whences = {"SEEK_END"}, !.argoks = {TRUE},
                 !.rsps = {"full", "err", "stale"}, !.allocs = BOOLEAN,
                 !.stales = MaxRetries]
             @@ [calls |-> Only({"a1"})]

NextStale ==
    \E t \in Threads :
        \/ \E fd \in 0..(PFSD_MAX_NFD - 1), a \in Calls : FdEnter(t, fd, a)
        \/ GetFile(t)
        \/ FileLock(t)
        \/ MountRdLock(t)
        \/ LseekLock(t)
        \/ \E alloc \in cfg.allocs : Chunk(t, alloc)
        \/ \E kind \in cfg.rsps : ChunkRecv(t, kind)
        \/ \E ub \in cfg.ubs, alloc \in cfg.allocs : LseekLocal(t, ub, alloc)
        \/ \E kind \in cfg.rsps : LseekRecv(t, kind)
        \/ \E alloc \in cfg.allocs : SimpleSend(t, alloc)
        \/ \E kind \in cfg.rsps : SimpleRecv(t, kind)
        \/ IoDone(t)
        \/ PutFile(t)
        \/ Return(t)

SpecStale == InitStale /\ [][NextStale]_vars

\* one thread writes on a descriptor opened with O_APPEND, buffers of one
\* chunk and of two, whose bytes are told apart; every answer is possible
InitOnce ==
    /\ MountedAndOpen({"RD", "WR", "TOOL"}, {"APPEND"}, 0, <<Hole>>)
    /\ cfg = [AllArgs EXCEPT !.pbds = {"A"}, !.ops = {"write", "pwrite"},
                 !.lens = {1, MaxLen}, !.offs = {0, 1}, !.logging = TRUE,
                 !.tagged = TRUE,
                 !.rsps = {"full", "short", "zero", "err", "stale"},
                 !.allocs = BOOLEAN, !.stales = MaxRetries]
             @@ [calls |-> Only({"a1"})]

\* nothing is mounted: one thread calls the public functions of the engine,
\* which end with any error, and the name-based calls of the SDK, with
\* paths that are good and bad
InitErr ==
    /\ InitMount
    /\ cfg = [AllArgs EXCEPT !.pbds = {"A"}, !.argoks = BOOLEAN,
                 !.nameops = NameOps \ {"mount_growfs", "increase_epoch"},
                 !.paths = {NoPath, AbsPath("A"), [kind |-> "rel", pbd |-> ""],
                            [kind |-> "long", pbd |-> ""]},
                 !.amodes = {"F_OK", "bad"}]
             @@ [calls |-> [t \in Threads |->
                     IF t = "a1" THEN ApiOps \cup NameOps ELSE {}]]

\* the public functions of the engine and the name-based calls of the SDK
NextErr ==
    \E t \in Threads :
        \/ \E op \in ApiOps, err \in EngineErrs : ApiEnter(t, op, err)
        \/ \E err \in EngineErrs \cup {"0"} : ApiTry(t, err)
        \/ ApiExit(t)
        \/ \E a \in NameCalls : NameEnter(t, a)
        \/ FindLookup(t)
        \/ Return(t)

\* how the public functions end
SpecErr == InitErr /\ [][NextErr]_vars

\* the operations on a mount that is read-only
SpecRo == InitRo /\ [][NextRo]_vars

\* the fd table under open and close
SpecTbl == InitTbl /\ [][NextTbl]_vars

\* mount, open, the fd operations, close and umount in one process
SpecFd == InitFd /\ [][NextFd]_vars

\* the fd operations on a descriptor without O_APPEND
SpecIO == InitIO /\ [][NextIO]_vars

\* the fd operations on a descriptor with O_APPEND
SpecAppend == InitAppend /\ [][NextIO]_vars

\* pfsd_lseek alone
SpecSeek == InitSeek /\ [][NextSeek]_vars

\* read, pread, write and pwrite of one thread
NextChunk ==
    \E t \in Threads :
        \/ \E fd \in 0..(PFSD_MAX_NFD - 1), a \in Calls : FdEnter(t, fd, a)
        \/ GetFile(t)
        \/ FileLock(t)
        \/ MountRdLock(t)
        \/ LseekLock(t)
        \/ \E alloc \in cfg.allocs : Chunk(t, alloc)
        \/ \E kind \in cfg.rsps : ChunkRecv(t, kind)
        \/ IoDone(t)
        \/ PutFile(t)
        \/ Return(t)

\* the chunk loops alone
SpecChunk == InitChunk /\ [][NextChunk]_vars

\* the chunk loops on an O_APPEND descriptor
SpecOnce == InitOnce /\ [][NextChunk]_vars

(***************************************************************************)
(* Properties                                                              *)
(***************************************************************************)
Registered(r) == recs[r].live /\ recs[r].on_list

\* C1: in every reachable state the registry of a process holds at most one
\* record per pbd_name (and no record twice), whatever the interleaving of
\* mount, umount, umount_force and remount
C1_OneRecordPerName ==
    \A p \in Procs : \A i, j \in 1..Len(mount_list[p]) :
        i # j => recs[mount_list[p][i]].pbd_name # recs[mount_list[p][j]].pbd_name

\* C1 witness: while one thread is in the channel connect of its mount, with
\* the mutex dropped, the mount of the same PBD by another thread of the
\* process has been turned away as already mounted
C1_Witness ==
    \E t, u \in Threads :
        /\ t # u /\ ProcOf(t) = ProcOf(u)
        /\ th[t].pc = "mount_connect"
        /\ th[u].pc = "ret" /\ th[u].note = "already mounted"
        /\ mount_list[ProcOf(t)] = <<>>

\* a thread of the record's process is inside umount or umount_force of it
UmountStarted(r) ==
    \E t \in Threads :
        /\ ProcOf(t) = recs[r].proc
        /\ th[t].op \in {"umount", "umount_force"}
        /\ th[t].pc \notin {"idle", "ret"}
        /\ th[t].pbd = recs[r].pbd_name

\* C3: while a mount made with WR and host id N is registered in one
\* process, no other process has a mount of the same PBD made with WR and
\* the same host id
C3_SingleWriterPerHostid ==
    \A r, q \in RecIds :
        (/\ Registered(r) /\ Registered(q)
         /\ recs[r].proc # recs[q].proc
         /\ recs[r].pbd_name = recs[q].pbd_name
         /\ "WR" \in recs[r].mflags /\ "WR" \in recs[q].mflags)
        => recs[r].host_id # recs[q].host_id

\* C4: between the return of a successful mount made with WR and host id
\* N > 0 and the start of its umount, the process holds the write lock on
\* the byte range [N * 1024, (N + 1) * 1024) of the PBD's fence file
C4_HostidLockHeld ==
    \A r \in RecIds :
        (/\ Registered(r)
         /\ "WR" \in recs[r].mflags
         /\ recs[r].host_id > 0
         /\ ~UmountStarted(r))
        => \E x \in flk[recs[r].proc][recs[r].pbd_name] :
              /\ x.start <= recs[r].host_id * FLK_LEN
              /\ RangeEnd(x) >= (recs[r].host_id + 1) * FLK_LEN

\* thread t has returned from the call op of a descriptor whose mount had
\* been unmounted, umount or umount_force having returned 0, before the call
\* began; the file the call was made on is still the one behind the
\* descriptor
LateCall(t) ==
    LET f == th[t].g.tgt IN
    /\ th[t].pc = "ret"
    /\ th[t].g.late
    /\ files[f].live /\ files[f].g_open /\ files[f].g_dead
    /\ fdtbl[ProcOf(t)][th[t].fd] = 2 * f

\* C2 as stated: after umount or umount_force of its mount has returned 0,
\* every later read, pread, write, pwrite, lseek, fstat, ftruncate and
\* fallocate on a descriptor returns -1 with ENODEV and sends no request,
\* and a later close returns 0
C2_EveryLateCallEnodev ==
    \A t \in Threads :
        LateCall(t) =>
            /\ th[t].op \in FdOps =>
                   th[t].ret = -1 /\ th[t].errno = "ENODEV" /\ th[t].g.nreq = 0
            /\ th[t].op = "close" => th[t].ret = 0

\* C2 amended: after umount or umount_force of its mount has returned 0,
\* every later fd operation on a descriptor returns -1 and sends no request,
\* with ENODEV when its other arguments pass the checks made before the
\* descriptor is looked at, with EINVAL when they do not (a negative offset
\* of pwrite, a null st of fstat, a negative len of ftruncate, a negative
\* offset or a len <= 0 of fallocate); a later close returns 0
C2_LateCallEnodevOrEinval ==
    \A t \in Threads :
        LateCall(t) =>
            /\ th[t].op \in FdOps =>
                   /\ th[t].ret = -1
                   /\ th[t].g.nreq = 0
                   /\ th[t].errno = IF th[t].g.rejected THEN "EINVAL" ELSE "ENODEV"
            /\ th[t].op = "close" => th[t].ret = 0

\* C2 witness: a read made after the umount returned has come back with
\* ENODEV, the descriptor still open
C2_Witness ==
    \E t \in Threads :
        /\ LateCall(t)
        /\ th[t].op = "read"
        /\ th[t].errno = "ENODEV"
        /\ th[t].g.nreq = 0

\* C5: no call returns to its caller with errno ESTALE, whatever the daemon
\* answers, write and pwrite on an O_APPEND descriptor included
C5_NoEstaleReturned ==
    \A t \in Threads : th[t].pc = "ret" => th[t].errno # "ESTALE"

\* the places of the daemon's file that hold bytes of call c
PlacesOf(c) == {i \in 1..Len(disk) : disk[i].call = c}

\* C6: on an O_APPEND descriptor written by several threads at once, the
\* bytes of each pfsd_write call lie in the file as one contiguous range, in
\* the order of the caller's buffer, and no byte of a returned call has been
\* written over by another call
C6_AppendContiguous ==
    /\ \A i, j \in 1..Len(disk) :
           (i < j /\ disk[i].op = "write" /\ disk[i].call = disk[j].call)
           => \A k \in i..j : /\ disk[k].call = disk[i].call
                              /\ disk[k].idx = disk[i].idx + (k - i)
    /\ \A t \in Threads :
           (th[t].pc = "ret" /\ th[t].op = "write" /\ th[t].g.call > 0)
           => Cardinality(PlacesOf(th[t].g.call)) = th[t].g.total

\* C6 witness: of two pfsd_write calls made at the same time, the one that
\* began second, of more than one chunk, lies whole at the head of the file
\* and the byte of the one that began first lies behind it
C6_Witness ==
    \E t, u \in Threads :
        /\ t # u
        /\ th[t].pc = "ret" /\ th[t].op = "write" /\ th[t].g.total = MaxLen
        /\ th[u].pc = "ret" /\ th[u].op = "write" /\ th[u].g.total = 1
        /\ th[u].g.call < th[t].g.call
        /\ Len(disk) = MaxLen + 1
        /\ disk[1].call = th[t].g.call
        /\ disk[MaxLen + 1].call = th[u].g.call

\* C7: on a descriptor without O_APPEND used by several threads, whenever no
\* call holds the offset, the file offset is the one the completed read,
\* write and lseek calls produce when applied one after the other in the
\* order they completed; pread and pwrite are none of them
C7_OffsetSerial ==
    \A f \in FileIds :
        (/\ files[f].live
         /\ "APPEND" \notin files[f].f_flags
         /\ files[f].f_lseek_lock = NoThread)
        => files[f].f_offset = files[f].ser

\* C7 witness: a read has moved the offset and returned while a pwrite of
\* the other thread is between two of its chunks
C7_Witness ==
    \E t, u \in Threads :
        /\ t # u
        /\ th[t].pc = "ret" /\ th[t].op = "read" /\ th[t].g.total > 0
        /\ th[u].pc = "chunk" /\ th[u].op = "pwrite" /\ th[u].total > 0
        /\ th[u].len > 0
        /\ files[1].f_lseek_lock = NoThread
        /\ files[1].f_offset = th[t].g.total

FullWrite(t) ==
    /\ th[t].pc = "ret"
    /\ th[t].op \in {"write", "pwrite"}
    /\ ~th[t].g.rejected
    /\ th[t].g.len0 > 0
    /\ th[t].g.clean
    /\ "WR" \in recs[1].flags

\* C9: a write or pwrite of len > 0 bytes on a writable mount, every chunk
\* taken in full and no answer ESTALE, sends ceil(len / PFSD_MAX_IOSIZE)
\* WRITE requests of at most PFSD_MAX_IOSIZE bytes each, for consecutive
\* parts of the buffer landing at consecutive places of the file, and
\* returns len
C9_ChunkedWrite ==
    \A t \in Threads :
        FullWrite(t) =>
            LET log == th[t].g.log
                len == th[t].g.len0
            IN /\ Len(log) = (len + PFSD_MAX_IOSIZE - 1) \div PFSD_MAX_IOSIZE
               /\ th[t].g.nreq = Len(log)
               /\ \A i \in 1..Len(log) :
                      /\ log[i].len > 0 /\ log[i].len <= PFSD_MAX_IOSIZE
                      /\ log[i].boff = IF i = 1 THEN 0
                                       ELSE log[i - 1].boff + log[i - 1].len
                      /\ log[i].land = log[1].land + log[i].boff
                      /\ log[i].off \in {log[i].land, OFFSET_FILE_SIZE}
               /\ log[Len(log)].boff + log[Len(log)].len = len
               /\ th[t].op = "pwrite" /\ "APPEND" \notin files[1].f_flags
                      => log[1].off = th[t].off
               /\ th[t].ret = len

\* C9 witness: a pfsd_write of MaxLen bytes, more than one chunk, on an
\* O_APPEND descriptor has returned MaxLen
C9_Witness ==
    \E t \in Threads :
        /\ FullWrite(t)
        /\ th[t].op = "write"
        /\ "APPEND" \in files[1].f_flags
        /\ th[t].g.len0 = MaxLen
        /\ Len(th[t].g.log) > 1
        /\ th[t].ret = MaxLen

\* C10: lseek with SEEK_SET or SEEK_CUR sends no request; it returns -1
\* with EOVERFLOW when old_offset + offset does not fit off_t, -1 with
\* EINVAL when the new offset is negative, the offset unchanged either way,
\* and otherwise stores and returns the new offset; lseek with SEEK_END
\* sends an LSEEK request and stores the offset the daemon answers
C10_LseekLocalOrDelegated ==
    \A t \in Threads :
        (th[t].pc = "ret" /\ th[t].op = "lseek") =>
            LET old == th[t].g.old
                sum == (IF th[t].whence = "SEEK_SET" THEN 0 ELSE old) + th[t].off
            IN IF th[t].whence = "SEEK_END"
               THEN /\ th[t].g.nreq >= 1
                    /\ th[t].ret >= 0 => files[1].f_offset = th[t].ret
               ELSE /\ th[t].g.nreq = 0
                    /\ IF sum > OFF_MAX \/ sum < OFF_MIN
                       THEN /\ th[t].ret = -1 /\ th[t].errno = "EOVERFLOW"
                            /\ files[1].f_offset = old
                       ELSE IF sum < 0
                       THEN /\ th[t].ret = -1 /\ th[t].errno = "EINVAL"
                            /\ files[1].f_offset = old
                       ELSE /\ th[t].ret = sum
                            /\ files[1].f_offset = sum


(***************************************************************************)
(* The fd table                                                            *)
(***************************************************************************)
\* the pfsd_open calls that have asked the table for a descriptor
Allocated(t) == th[t].op = "open" /\ th[t].g.tried

\* C11: pfsd_open fails with EMFILE exactly when PFSD_MAX_NFD files are live
\* at the moment it asks for a descriptor; with fewer it gets one
C11_EmfileIffTableFull ==
    \A t \in Threads :
        Allocated(t) =>
            /\ (th[t].g.got = -1) <=> (th[t].g.nlive = PFSD_MAX_NFD)
            /\ (th[t].g.got = -1) =>
                   (th[t].pc = "ret" => th[t].ret = -1 /\ th[t].errno = "EMFILE")
            /\ (th[t].g.got # -1) => th[t].errno # "EMFILE"

\* a pfsd_open has failed with EMFILE on a full table, and another, after a
\* close, has got a descriptor
C11_Witness ==
    /\ Allocated("a1") /\ th["a1"].pc = "ret" /\ th["a1"].errno = "EMFILE"
    /\ th["a1"].g.nlive = PFSD_MAX_NFD
    /\ Allocated("a2") /\ th["a2"].pc = "ret" /\ th["a2"].ret >= 0
    /\ th["a2"].g.nlive = PFSD_MAX_NFD - 1

Last(s) == s[Len(s)]

\* C12: the descriptor pfsd_open gets is the slot freed last among those
\* still free, or the number of open files when no freed slot is left; every
\* live descriptor is below the most files ever open at once
C12_LifoReuse ==
    /\ \A t \in Threads :
           Allocated(t) /\ th[t].g.got # -1 =>
               th[t].g.got = IF th[t].g.freed # <<>> THEN Last(th[t].g.freed)
                             ELSE th[t].g.nlive
    /\ \A p \in Procs : \A fd \in LiveFds(fdtbl[p]) : fd < hist[p].peak

\* two slots were free, and the open got the one freed last, which is not
\* the lowest
C12_Witness ==
    \E t \in Threads :
        /\ Allocated(t) /\ th[t].pc = "ret" /\ th[t].ret >= 0
        /\ Len(th[t].g.freed) = 2
        /\ th[t].ret = Last(th[t].g.freed)
        /\ th[t].ret > th[t].g.freed[1]

(***************************************************************************)
(* Read-only mounts                                                        *)
(***************************************************************************)
\* the calls that would change the file system: open with O_CREAT or
\* O_TRUNC, write and pwrite of at least a byte, truncate, ftruncate,
\* fallocate, unlink, rename, mkdir, rmdir, and access with W_OK
MutatingCall(t) == th[t].g.mut

\* the call has returned -1 with EROFS, no request was sent, and the
\* registry and the fd table are as they were before it
RefusedReadOnly(t) ==
    /\ th[t].ret = -1 /\ th[t].errno = "EROFS"
    /\ th[t].g.nreq = 0
    /\ th[t].g.snap = Snapshot

UnregisteredCall(t) == th[t].pc = "ret" /\ th[t].g.unreg

RemountSettles(t) ==
    /\ th[t].op = "remount"
    /\ th[t].pc \in {"rm_prepare", "rm_reconnect"}
    /\ th'[t].pc = "put_ref"

\* the record r of process p holds the fence-file lock of host hostid
HoldsHostidLock(rs, k, f, p, r, hostid) ==
    /\ rs[r].hostid_lock_fd >= 0
    /\ k[p][rs[r].hostid_lock_fd] = rs[r].pbd_name
    /\ Range(hostid) \in f[p][rs[r].pbd_name]

\* the conditions of a successful remount and what it leaves
RemountSucceeds(t) ==
    LET p == ProcOf(t)
        r == th[t].mp
    IN
    /\ ~Unregistered(p, th[t].pbd)
    /\ th[t].hostid = recs[r].host_id
    /\ "WR" \notin recs[r].flags
    /\ "WR" \in th[t].flags /\ "TOOL" \notin th[t].flags
    /\ recs'[r].conn_id = recs[r].conn_id
    /\ recs'[r].flags = th[t].flags
    /\ HoldsHostidLock(recs', kfd', flk', p, r, th[t].hostid)

\* C15: pfsd_remount succeeds only when the PBD is registered, the quoted
\* hostid is the record's, the record's flags lack WR and the new flags have
\* WR and not TOOL, and then the record keeps its conn_id, takes the new
\* flags and holds the hostid lock; in every other case it returns -1 and
\* leaves the record's flags and conn_id as they were and no hostid lock
\* held by the record.
C15_RemountOrNoLock ==
    [][\A t \in Threads :
          /\ RemountSettles(t) =>
                 IF th'[t].ret = 0
                 THEN RemountSucceeds(t)
                 ELSE /\ th'[t].ret = -1
                      /\ recs'[th[t].mp].flags = recs[th[t].mp].flags
                      /\ recs'[th[t].mp].conn_id = recs[th[t].mp].conn_id
                      /\ recs'[th[t].mp].hostid_lock_fd = -1
          /\ (th[t].op = "remount" /\ th[t].pc = "find" /\ th'[t].pc = "ret") =>
                 /\ th'[t].ret = -1
                 /\ recs' = recs /\ kfd' = kfd /\ flk' = flk
      ]_vars

\* C15, amended: as above, but a remount that fails leaves the record's
\* hostid lock as the record was mounted: none when its flags lack WR, and
\* the lock it took at pfsd_mount or at an earlier remount when they have WR.
C15_RemountOrLockAsMounted ==
    [][\A t \in Threads :
          /\ RemountSettles(t) =>
                 IF th'[t].ret = 0
                 THEN RemountSucceeds(t)
                 ELSE /\ th'[t].ret = -1
                      /\ recs'[th[t].mp].flags = recs[th[t].mp].flags
                      /\ recs'[th[t].mp].conn_id = recs[th[t].mp].conn_id
                      /\ IF "WR" \in recs[th[t].mp].flags
                         THEN /\ recs'[th[t].mp].hostid_lock_fd
                                    = recs[th[t].mp].hostid_lock_fd
                              /\ kfd' = kfd /\ flk' = flk
                         ELSE recs'[th[t].mp].hostid_lock_fd = -1
          /\ (th[t].op = "remount" /\ th[t].pc = "find" /\ th'[t].pc = "ret") =>
                 /\ th'[t].ret = -1
                 /\ recs' = recs /\ kfd' = kfd /\ flk' = flk
      ]_vars

\* a remount of "A", mounted read-only at first, has returned 0: the record
\* has the new flags, its conn_id, and the lock of host 1
C15_Witness ==
    /\ th["a1"].pc = "ret" /\ th["a1"].op = "remount" /\ th["a1"].ret = 0
    /\ mount_list["p1"] = <<1>>
    /\ recs[1].flags = {"RD", "WR"} /\ recs[1].conn_id = 1
    /\ HoldsHostidLock(recs, kfd, flk, "p1", 1, 1)


(***************************************************************************)
(* C16: pfsd_mount with an empty pbd_name                                  *)
(***************************************************************************)
\* C16: pfsd_mount with an empty pbd_name returns -1 with errno EINVAL; the
\* call attempts and takes no fence-file lock and creates and registers no
\* record. (A call of pfsd_mount with the empty name is nowhere but at its
\* return; no fence file of the empty name is open or locked; no record on
\* a mount list bears the empty name.)
C16_EmptyNameRefused ==
    /\ \A t \in Threads :
           (th[t].op = "mount" /\ th[t].g.noname) =>
               /\ th[t].pc = "ret"
               /\ th[t].ret = -1
               /\ th[t].errno = "EINVAL"
    /\ \A p \in Procs :
           /\ flk[p][""] = {}
           /\ \A fd \in KFds : kfd[p][fd] # ""
           /\ Unregistered(p, "")

\* pfsd_mount("", 1, RD | WR) has returned 0: its record is registered
\* under the empty name and holds the hostid lock on the fence file of the
\* empty name
C16_EmptyNameMounted ==
    /\ th["a1"].pc = "ret" /\ th["a1"].op = "mount" /\ th["a1"].g.noname
    /\ th["a1"].ret = 0
    /\ ~Unregistered("p1", "")


(***************************************************************************)
(* C17: the sentinel and errno of a call that fails                        *)
(***************************************************************************)
AllowList == {"EACCES", "EAGAIN", "EBADF", "EEXIST", "EFBIG", "EINVAL", "EISDIR",
              "EMFILE", "ENAMETOOLONG", "ENODEV", "ENOENT", "ENOTEMPTY",
              "ENOMEM", "ENOSPC", "ENOTDIR", "EXDEV", "EOVERFLOW", "EROFS",
              "EBUSY", "ERANGE"}

\* thread t has returned from a call that failed
FailedCall(t) ==
    /\ th[t].pc = "ret"
    /\ th[t].g.failed \/ th[t].g.rejected \/ th[t].g.unreg

\* C17: whenever a public operation fails it returns the failure sentinel
\* (-1, or NULL from a function that returns a pointer) and has set errno
\* to a member of the allow-list or to EIO.
C17_SentinelAndListedErrno ==
    \A t \in Threads :
        FailedCall(t) =>
            /\ th[t].ret = Sentinel(th[t].op)
            /\ th[t].errno \in AllowList \cup {"EIO"}

\* pfs_posix_fallocate has failed with -ENOSPC: it has returned a positive
\* number and has not written errno
C17_PosixFallocateReturnsError ==
    /\ th["a1"].pc = "ret" /\ th["a1"].op = "pfs_posix_fallocate"
    /\ th["a1"].g.failed
    /\ th["a1"].ret = PosErr("ENOSPC") /\ th["a1"].errno = "0"

\* pfsd_access has failed on a path that pfsd_name_init refuses: errno EFAULT
C17_AccessReturnsEfault ==
    /\ th["a1"].pc = "ret" /\ th["a1"].op = "access" /\ th["a1"].g.rejected
    /\ th["a1"].ret = -1 /\ th["a1"].errno = "EFAULT"


(***************************************************************************)
(* C18: -EAGAIN stays inside the entry points                              *)
(***************************************************************************)
\* C18: no public operation returns with errno EAGAIN: a result of -EAGAIN
\* makes the entry point go through its operation again (pfsd_close puts
\* the file back and gets it again), and the entry point returns only with
\* success or another error.
C18_NoEagainReturned ==
    \A t \in Threads :
        /\ th[t].pc = "ret" => th[t].errno # "EAGAIN" /\ th[t].e # "EAGAIN"
        /\ (th[t].pc = "api_loop" /\ th[t].e = "EAGAIN") => ENABLED ApiTry(t, "0")
        /\ (th[t].op = "close" /\ th[t].e = "EAGAIN") =>
               th[t].pc \in {"close_put", "close_get", "close_lock", "close_file"}

\* pfsd_close has returned 0 after pfsd_close_file had reported -EAGAIN
C18_Witness ==
    /\ th["a1"].pc = "ret" /\ th["a1"].op = "close"
    /\ th["a1"].tries > 0 /\ th["a1"].ret = 0

\* a function of the engine has returned an error after its operation had
\* ended with -EAGAIN twice
C18_WitnessEngine ==
    /\ th["a1"].pc = "ret" /\ th["a1"].op = "pfs_close"
    /\ th["a1"].tries = MaxAgain + 1 /\ th["a1"].errno = "EIO"


(***************************************************************************)
(* C19: when pfsd_atfork_child_post has run in a forked child, the mount   *)
(* registry of the child has no record and its fd table has no live slot,  *)
(* whatever the parent had mounted or opened.                              *)
(***************************************************************************)
\* fork has returned in the child, which has made no call yet
JustForked(t) == th[t].op = "fork" /\ th[t].pc = "ret"

C19_ChildStateEmpty ==
    \A t \in Threads :
        JustForked(t) =>
            /\ mount_list[ProcOf(t)] = <<>>
            /\ LiveFds(fdtbl[ProcOf(t)]) = {}

\* the half of C19 on the registry: it is empty when fork returns
C19_RegistryEmpty ==
    \A t \in Threads : JustForked(t) => mount_list[ProcOf(t)] = <<>>

\* a child whose parent had descriptor 0 alone open: no slot is live
C19_OneFdChild ==
    \E t \in Threads :
        /\ JustForked(t)
        /\ hist[ProcOf(t)].inherited = {0}
        /\ LiveFds(fdtbl[ProcOf(t)]) = {}

\* a child whose parent had descriptors 0 and 1 open: slot 1 still leads to
\* the file
C19_SecondFdLive ==
    \E t \in Threads :
        /\ JustForked(t)
        /\ hist[ProcOf(t)].inherited = {0, 1}
        /\ LiveFds(fdtbl[ProcOf(t)]) = {1}

\* fstat on descriptor 1 of the parent succeeds in the child, which has
\* mounted and opened nothing
C19_ChildFstatSucceeds ==
    \E t \in Threads :
        /\ hist[ProcOf(t)].forked
        /\ mount_list[ProcOf(t)] = <<>>
        /\ th[t].op = "fstat" /\ th[t].pc = "ret"
        /\ th[t].fd = 1 /\ th[t].ret = 0


(***************************************************************************)
(* C20: on one DIR of a directory that does not change, the successive     *)
(* pfsd_readdir and pfsd_readdir_r calls return every entry the daemon has *)
(* delivered exactly once and in the daemon's order; a READDIR request is  *)
(* sent only when the page buffer is consumed; a call that finds the       *)
(* buffer consumed and the end of the directory indicated, or is told the  *)
(* end by the daemon, returns a null entry without an error, and a null    *)
(* entry without an error comes only when every entry has been returned.   *)
(***************************************************************************)
\* the entries of the buffer that are not yet returned
Unread(d) == SubSeq(d.d_data, d.d_data_offset + 1, d.d_data_size)

\* a readdir or readdir_r call whose arguments were taken is at its return
ReaddirDone(t) ==
    /\ th[t].op \in {"readdir", "readdir_r"}
    /\ th[t].pc = "ret"
    /\ ~th[t].g.rejected

\* what the call has handed to its caller: an entry or 0 for none
Handed(t) == IF th[t].op = "readdir" THEN th[t].ret ELSE th[t].result

\* the call failed: pfsd_readdir_r -1, pfsd_readdir null with errno written
ReaddirFailed(t) ==
    th[t].errno # "0" /\ (th[t].op = "readdir_r" => th[t].ret = -1)

C20_EveryEntryOnceThenNull ==
    \A t \in Threads :
        LET d == th[t].dir IN
        \* what is returned and what is left in the buffer is what the daemon
        \* has delivered, which is the directory from its start
        /\ d.d_data_offset <= d.d_data_size
        /\ d.g_got \o Unread(d) = d.g_delivered
        /\ d.g_delivered = [i \in 1..Len(d.g_delivered) |-> i]
        /\ Len(d.g_delivered) <= cfg.dirlen
        \* a request is under way: the buffer is consumed
        /\ th[t].pc \in {"readdir_send", "readdir_recv"} =>
               /\ th[t].g.drained
               /\ d.g_got = d.g_delivered
        /\ ReaddirDone(t) =>
               \* an entry is handed over: the next one in the order
               /\ Handed(t) # 0 =>
                      /\ ~ReaddirFailed(t)
                      /\ Handed(t) = Len(d.g_got)
               \* the end was known and the buffer consumed: no entry, no
               \* error, no request
               /\ th[t].g.drained /\ th[t].g.next0 = 0 =>
                      /\ Handed(t) = 0 /\ th[t].ret = 0 /\ th[t].errno = "0"
                      /\ th[t].g.nreq = 0
               \* the daemon answers PFSD_DIR_END: no entry, no error
               /\ th[t].g.dirend =>
                      Handed(t) = 0 /\ th[t].ret = 0 /\ th[t].errno = "0"
               \* no entry and no error: the whole directory was returned
               /\ Handed(t) = 0 /\ ~ReaddirFailed(t) =>
                      d.g_got = [i \in 1..cfg.dirlen |-> i]
               \* a buffered entry is handed over without a request
               /\ ~th[t].g.drained => th[t].g.nreq = 0 /\ Handed(t) # 0

\* the whole directory, of more entries than a page holds, has been returned
\* and the next call has handed over no entry and no error
C20_Witness ==
    \E t \in Threads :
        /\ ReaddirDone(t)
        /\ cfg.dirlen = MaxDir
        /\ th[t].dir.g_got = [i \in 1..MaxDir |-> i]
        /\ Handed(t) = 0 /\ th[t].errno = "0"
        /\ th[t].g.drained /\ th[t].g.next0 = 0

\* the end of the directory as the daemon's PFSD_DIR_END, after entries
C20_WitnessDirEnd ==
    \E t \in Threads :
        /\ ReaddirDone(t)
        /\ th[t].g.dirend
        /\ Len(th[t].dir.g_got) = MaxDir

\* an entry handed over from the buffer
C20_WitnessBuffered ==
    \E t \in Threads :
        /\ ReaddirDone(t)
        /\ ~th[t].g.drained
        /\ Handed(t) = 2


(***************************************************************************)
(* C21: pfsd_normalize_path applied to its own result gives the same       *)
(* string.  The result has no "." and no ".." segment, starts with the     *)
(* first segment of the path that is neither, is its segments each behind  *)
(* a '/', and ends with one more '/' when it has exactly one segment.      *)
(***************************************************************************)
Segments(s) == Tokenize(s, 1, <<>>)

\* the first segment of s that is neither "." nor ".."
FirstName(s) ==
    LET toks == Segments(s)
        i == CHOOSE k \in 1..Len(toks) :
                 /\ toks[k] \notin {Dot, DotDot}
                 /\ \A j \in 1..(k - 1) : toks[j] \in {Dot, DotDot}
    IN toks[i]

C21_NormalizeIdempotent ==
    \A t \in Threads :
        LET log == th[t].g.log IN
        th[t].op = "normalize" =>
            /\ Len(log) >= 2 =>
                   /\ \A i \in 1..Len(Segments(log[2])) :
                          Segments(log[2])[i] \notin {Dot, DotDot}
                   /\ Segments(log[2])[1] = FirstName(log[1])
                   /\ log[2] = JoinDirs(Segments(log[2])) \o
                                (IF Len(Segments(log[2])) = 1 THEN <<"/">>
                                 ELSE <<>>)
            /\ th[t].pc = "ret" /\ Len(log) >= 2 =>
                   /\ Len(log) = 3
                   /\ log[3] = log[2]

\* "/./a/..", where ".." does not take the first segment away, was
\* normalized to "/a/" and that to itself
C21_Witness ==
    \E t \in Threads :
        /\ th[t].op = "normalize" /\ th[t].pc = "ret"
        /\ Len(th[t].g.log) = 3
        /\ th[t].g.log[1] = <<"/", ".", "/", "a", "/", ".", ".">>
        /\ th[t].g.log[2] = <<"/", "a", "/">>
        /\ th[t].g.log[3] = th[t].g.log[2]

\* "/a" is normalized to "/a/"
C21_WitnessTrailingSlash ==
    \E t \in Threads :
        /\ th[t].op = "normalize" /\ th[t].pc = "ret"
        /\ th[t].g.log = <<<<"/", "a">>, <<"/", "a", "/">>, <<"/", "a", "/">>>>


(***************************************************************************)
(* C22: g_pfsd_started is 1 exactly from a pfsd_start that returns 0 to    *)
(* the return of pfsd_wait_stop; pfsd_start on a started daemon returns -1 *)
(* and changes nothing; pfsd_wait_stop on a daemon not started returns -1; *)
(* pfsd_stop can always be called and returns in one step; and when the    *)
(* stop flag is set on a started daemon, a thread in pfsd_wait_stop        *)
(* eventually returns 0 with the pid file closed and the flag cleared.     *)
(***************************************************************************)
\* thread t enters call op in this step
Enters(t, op) == th[t].pc = "idle" /\ th'[t].pc # "idle" /\ th'[t].op = op

WaitStopReturned(t) ==
    /\ th[t].op = "pfsd_wait_stop" /\ th[t].pc = "ret" /\ th[t].ret = 0

C22_StartedFlag ==
    /\ (pfsd.g_pfsd_started = 1) = pfsd.up
    /\ pfsd.g_pfsd_started \in {0, 1}
    /\ \A t \in Threads :
          /\ th[t].pc = "idle" /\ "pfsd_stop" \in cfg.calls[t] =>
                 ENABLED PfsdStop(t)
          /\ WaitStopReturned(t) =>
                 /\ pfsd.g_pfsd_pidfile = -1
                 /\ pfsd.g_pfsd_started = 0
                 /\ pfsd.main = "none"
          /\ th[t].op = "pfsd_is_started" /\ th[t].pc = "ret" =>
                 th[t].ret \in {0, 1}

C22_RefusedCalls ==
    \A t \in Threads :
        /\ Enters(t, "pfsd_start") /\ pfsd.g_pfsd_started = 1 =>
               th'[t].pc = "ret" /\ th'[t].ret = -1 /\ pfsd' = pfsd
        /\ Enters(t, "pfsd_wait_stop") /\ pfsd.g_pfsd_started = 0 =>
               th'[t].pc = "ret" /\ th'[t].ret = -1 /\ pfsd' = pfsd
        /\ Enters(t, "pfsd_stop") =>
               th'[t].pc = "ret" /\ th'[t].ret = 0
        /\ Enters(t, "pfsd_is_started") =>
               th'[t].pc = "ret" /\ th'[t].ret = pfsd.g_pfsd_started

C22_Lifecycle ==
    /\ []C22_StartedFlag
    /\ [][C22_RefusedCalls]_vars
    /\ \A t \in Threads :
          (th[t].pc = "wait_join" /\ pfsd.g_pfsd_stop) ~> WaitStopReturned(t)

\* the daemon was started, stopped, waited for and is started again
C22_Witness ==
    /\ pfsd.starts = 2
    /\ pfsd.g_pfsd_started = 1
    /\ \E t \in Threads :
          th[t].op = "pfsd_start" /\ th[t].pc = "ret" /\ th[t].ret = 0

\* pfsd_start was refused on a started daemon
C22_WitnessRefused ==
    \E t \in Threads :
        /\ th[t].op = "pfsd_start" /\ th[t].pc = "ret" /\ th[t].g.rejected
        /\ pfsd.g_pfsd_started = 1


(***************************************************************************)
(* C23: no thread acquires a lock that ranks earlier in the order registry *)
(* mutex, MountRecord rwlock, FileHandle rwlock, fd-table mutex while it   *)
(* holds a lock that ranks later.                                          *)
(***************************************************************************)
HoldsRegistry(t) == pfs_init_mtx[ProcOf(t)] = t
HoldsMount(t, r) == recs[r].wr = t \/ t \in recs[r].rd
HoldsFile(t, f) == files[f].wr = t \/ t \in files[f].rd
HoldsTable(t) == fdtbl_mtx[ProcOf(t)] = t

C23_LockOrderStep ==
    \A t \in Threads :
        /\ ~HoldsRegistry(t) /\ HoldsRegistry(t)' =>
               /\ \A r \in RecIds : ~HoldsMount(t, r)
               /\ \A f \in FileIds : ~HoldsFile(t, f)
               /\ ~HoldsTable(t)
        /\ (\E r \in RecIds : ~HoldsMount(t, r) /\ HoldsMount(t, r)') =>
               /\ \A f \in FileIds : ~HoldsFile(t, f)
               /\ ~HoldsTable(t)
        /\ (\E f \in FileIds : ~HoldsFile(t, f) /\ HoldsFile(t, f)') =>
               ~HoldsTable(t)

C23_LockOrder == [][C23_LockOrderStep]_vars

\* a thread holds the read lock of a file and of the mount the file is on,
\* the second taken under the first
C23_MountLockedUnderFile ==
    \E t \in Threads :
        /\ th[t].pc \in {"simple", "chunk", "lseek_lock", "lseek_local"}
        /\ HoldsFile(t, th[t].file)
        /\ HoldsMount(t, th[t].mp)


(***************************************************************************)
(* C24: after pfsd_close(fd) has returned 0, every operation on fd, a      *)
(* second pfsd_close included, returns -1 with errno EBADF until a later   *)
(* open is given the same slot; for each successful open pfsd_close        *)
(* returns 0 at most once.                                                 *)
(***************************************************************************)
\* t has returned from a call on a descriptor that was closed when the call
\* began and whose slot no open was given during the call
OnClosedFd(t) ==
    /\ th[t].pc = "ret"
    /\ th[t].op \in FdOps \cup {"close"}
    /\ th[t].g.closed
    /\ ~th[t].g.reused

\* a closed descriptor names no file
C24_SlotStaysFree ==
    \A p \in Procs : \A fd \in hist[p].closed :
        fd_to_file(fdtbl[p], fd) = NoFileId

\* a pfsd_close that returns 0 closes a descriptor that an open was given
\* after the last pfsd_close of it that returned 0
C24_CloseOnceStep ==
    \A t \in Threads :
        (th[t].pc # "ret" /\ th'[t].pc = "ret" /\ th'[t].op = "close"
         /\ th'[t].ret = 0)
            => th[t].fd \notin hist[ProcOf(t)].closed

C24_WitnessSecondClose ==
    \E t \in Threads :
        /\ OnClosedFd(t) /\ th[t].op = "close"
        /\ th[t].ret = -1 /\ th[t].errno = "EBADF"

\* a call that began on a closed descriptor succeeds: an open was given
\* the slot before the call looked at it
C24_WitnessReused ==
    \E t \in Threads :
        /\ th[t].pc = "ret" /\ th[t].g.closed /\ th[t].g.reused
        /\ th[t].ret = 0

\* fstat with a null st on a closed descriptor has returned EINVAL
C24_WitnessEinval ==
    \E t \in Threads :
        /\ OnClosedFd(t) /\ th[t].g.rejected /\ th[t].errno = "EINVAL"

\* two pfsd_close of one descriptor at once: the one that lost has EBADF
C24_WitnessRace ==
    \E t \in Threads :
        /\ th[t].pc = "ret" /\ th[t].op = "close" /\ ~th[t].g.closed
        /\ th[t].ret = -1 /\ th[t].errno = "EBADF"


(***************************************************************************)
(* C25: for every request other than a write on an O_APPEND file, each     *)
(* answer ESTALE makes the SDK call pfsd_chnl_update_meta once, free the   *)
(* buffers and send the same request again from the allocation of the      *)
(* buffers on; the result is that of the first answer that is not ESTALE,  *)
(* and the request function returns when that answer comes.                *)
(***************************************************************************)
InFdCall(t) == th[t].op \in FdOps /\ th[t].pc # "idle"

\* the call of t writes on a descriptor opened with O_APPEND
AppendWrite(t) ==
    /\ th[t].op \in {"write", "pwrite"}
    /\ th[t].g.tgt # NoFileId
    /\ "APPEND" \in files[th[t].g.tgt].f_flags

\* one pfsd_chnl_update_meta for each ESTALE, none for an append write
C25_MetaPerStale ==
    \A t \in Threads :
        InFdCall(t) =>
            IF AppendWrite(t) THEN th[t].g.nmeta = 0
            ELSE th[t].g.nmeta = th[t].g.nstale

\* the step that takes an ESTALE answer leaves the call at the allocation
\* of its buffers, with no buffer, no result and nothing else changed
C25_RetryStep ==
    \A t \in Threads :
        (InFdCall(t) /\ ~AppendWrite(t)
         /\ th'[t].g.nstale = th[t].g.nstale + 1)
            => /\ th'[t].pc = BodyPc(th[t].op)
               /\ th'[t].req = NoReq
               /\ th'[t].g.resend = th[t].req
               /\ th'[t].g.nreq = th[t].g.nreq
               /\ th'[t].len = th[t].len /\ th'[t].off = th[t].off
               /\ th'[t].total = th[t].total /\ th'[t].err = th[t].err
               /\ th'[t].errno = th[t].errno
               /\ files' = files /\ disk' = disk

\* the request sent after an ESTALE is the one that was answered ESTALE
C25_SameRequest ==
    \A t \in Threads :
        (th[t].pc \in {"chunk_recv", "simple_recv", "lseek_recv"}
         /\ th[t].g.resend # NoReq)
            => th[t].req = th[t].g.resend

\* a call of one request returns what the one answer that is not ESTALE
\* says, and has sent nothing after it
C25_FirstOtherAnswer ==
    \A t \in Threads :
        (th[t].pc = "ret" /\ th[t].op \in {"fstat", "lseek"}
         /\ ~th[t].g.rejected)
            => CASE th[t].g.heard = "full" ->
                       /\ th[t].g.nreq = th[t].g.nstale + 1
                       /\ th[t].ret >= 0
                 [] th[t].g.heard = "err" ->
                       /\ th[t].g.nreq = th[t].g.nstale + 1
                       /\ th[t].ret = -1 /\ th[t].errno = "EIO"
                 [] OTHER ->
                       /\ th[t].g.nreq = th[t].g.nstale
                       /\ th[t].ret = -1 /\ th[t].errno = "ENOMEM"

C25_StalenessLoop ==
    /\ [](C25_MetaPerStale /\ C25_SameRequest /\ C25_FirstOtherAnswer)
    /\ [][C25_RetryStep]_vars

\* a pread whose request was answered ESTALE twice has returned its byte
C25_Witness ==
    \E t \in Threads :
        /\ th[t].pc = "ret" /\ th[t].op = "pread"
        /\ th[t].g.nstale = MaxRetries /\ th[t].g.nmeta = MaxRetries
        /\ th[t].g.nreq = MaxRetries + 1
        /\ th[t].ret = 1

\* after an ESTALE no buffer is left for the retry: ENOMEM
C25_WitnessNoBuffer ==
    \E t \in Threads :
        /\ th[t].pc = "ret" /\ th[t].op = "fstat"
        /\ th[t].g.nstale = 1 /\ th[t].g.heard = "none"
        /\ th[t].ret = -1 /\ th[t].errno = "ENOMEM"

\* a write on a descriptor without O_APPEND is sent again
C25_WitnessWrite ==
    \E t \in Threads :
        /\ th[t].pc = "chunk_recv" /\ th[t].op = "write" /\ ~AppendWrite(t)
        /\ th[t].g.resend # NoReq /\ th[t].req = th[t].g.resend


(***************************************************************************)
(* C26: for a file opened with O_APPEND each chunk of a write or pwrite is *)
(* sent to the daemon at most once: no answer, ESTALE included, makes the  *)
(* SDK send the same chunk again, and no chunk is appended twice.          *)
(***************************************************************************)
C26_AppendChunkOnce ==
    /\ \A t \in Threads :
           (InFdCall(t) /\ AppendWrite(t)) =>
               LET log == th[t].g.log IN
               /\ th[t].g.nreq = Len(log)
               /\ th[t].g.nmeta = 0
               /\ th[t].g.resend = NoReq
               /\ \A i \in 1..Len(log) :
                      /\ log[i].off = OFFSET_FILE_SIZE
                      /\ \A j \in 1..Len(log) :
                             i < j => /\ log[i].boff < log[j].boff
                                      /\ log[i].land # -1
    /\ \A k1, k2 \in 1..Len(disk) :
           (k1 # k2 /\ disk[k1] = disk[k2]) => disk[k1] = Hole

\* an append write of two chunks whose second request was answered ESTALE
\* has ended: two requests sent, the first chunk on the disk once
C26_Witness ==
    \E t \in Threads :
        /\ th[t].pc = "ret" /\ AppendWrite(t)
        /\ th[t].g.nstale = 1 /\ th[t].g.nreq = 2
        /\ Len(th[t].g.log) = 2
        /\ th[t].g.total = PFSD_MAX_IOSIZE
        /\ Len(disk) = 1 + PFSD_MAX_IOSIZE

\* the daemon took part of a chunk: the rest goes out with the next one
C26_WitnessShort ==
    \E t \in Threads :
        /\ th[t].pc = "ret" /\ AppendWrite(t)
        /\ Len(th[t].g.log) = 3
        /\ th[t].ret = MaxLen


(***************************************************************************)
(* C27: for a file opened with O_APPEND every pfsd_write and every         *)
(* pfsd_pwrite sends the append sentinel as offset, whatever offset the    *)
(* caller passed, holds the file's f_lseek_lock for the whole call, and on *)
(* success stores the file size the daemon returns into the file's offset. *)
(***************************************************************************)
\* every WRITE request of the call carries OFFSET_FILE_SIZE, and
\* f_lseek_lock is held from before the first request to the end of the loop
C27_SentinelUnderLock ==
    \A t \in Threads :
        (InFdCall(t) /\ AppendWrite(t)) =>
            /\ th[t].pc = "chunk_recv" => th[t].req.off = OFFSET_FILE_SIZE
            /\ th[t].pc \in {"chunk", "chunk_recv", "io_done"} =>
                   files[th[t].g.tgt].f_lseek_lock = t
            /\ \A i \in 1..Len(th[t].g.log) :
                   th[t].g.log[i].off = OFFSET_FILE_SIZE

\* the call of t has written bytes on its O_APPEND descriptor and is over
AppendWritten(t) ==
    /\ th[t].pc = "ret" /\ AppendWrite(t) /\ th[t].g.total > 0

\* the claim as written: pfsd_write and pfsd_pwrite alike leave the size
\* of the file in f_offset
C27_AppendStoresSize ==
    /\ C27_SentinelUnderLock
    /\ \A t \in Threads :
           AppendWritten(t) => files[th[t].g.tgt].f_offset = Len(disk)

\* no step of a pfsd_pwrite changes f_offset
C27_PwriteKeepsOffsetStep ==
    \A t \in Threads :
        (InFdCall(t) /\ AppendWrite(t) /\ th[t].op = "pwrite"
         /\ th[t].pc # "ret")
            => files'[th[t].g.tgt].f_offset = files[th[t].g.tgt].f_offset

\* C27 as the code has it: pfsd_write leaves the size of the file in
\* f_offset, pfsd_pwrite leaves f_offset as it was
C27_WriteStoresSize ==
    /\ [](/\ C27_SentinelUnderLock
          /\ \A t \in Threads :
                 (AppendWritten(t) /\ th[t].op = "write")
                     => files[th[t].g.tgt].f_offset = Len(disk))
    /\ [][C27_PwriteKeepsOffsetStep]_vars

\* a pfsd_write of two chunks on the O_APPEND descriptor has returned with
\* f_offset at the end of the file
C27_Witness ==
    \E t \in Threads :
        /\ AppendWritten(t) /\ th[t].op = "write" /\ th[t].ret = MaxLen
        /\ Len(th[t].g.log) = 2
        /\ files[th[t].g.tgt].f_offset = Len(disk)
        /\ Len(disk) = 1 + MaxLen

\* a pfsd_pwrite at offset 1 has appended its bytes; f_offset is still 0
C27_WitnessPwrite ==
    \E t \in Threads :
        /\ AppendWritten(t) /\ th[t].op = "pwrite" /\ th[t].off = 1
        /\ th[t].ret = MaxLen
        /\ th[t].g.log[1].land = 1
        /\ files[th[t].g.tgt].f_offset = 0
        /\ Len(disk) = 1 + MaxLen


(***************************************************************************)
(* C28: under any interleaving of pfsd_umount or pfsd_umount_force of a    *)
(* mount with fd operations and pfsd_close on descriptors opened on it no  *)
(* reachable state is a deadlock, and with fair scheduling and a daemon    *)
(* that answers every request every one of those calls returns.            *)
(***************************************************************************)
\* the threads inside a call
Busy == {t \in Threads : th[t].pc \notin {"idle", "ret"}}

\* whenever calls are under way, one of them can take a step
C28_NoDeadlock ==
    Busy # {} => \E t \in Busy : ENABLED (NextFd /\ th'[t] # th[t])

\* an fd operation holds the read lock of its file and waits for the lock
\* of the mount, whose holder, in pfsd_close_all_files with fdtbl_mtx held,
\* waits for the write lock of that file
C28_Deadlocked ==
    \E t, u \in Threads :
        /\ th[t].pc = "mp_rdlock" /\ t \in files[th[t].file].rd
        /\ recs[th[t].mp].wr = u
        /\ th[u].pc = "um_caf" /\ th[u].mp = th[t].mp
        /\ fdtbl_mtx[ProcOf(u)] = u
        /\ files[th[t].file].f_mp = th[u].mp
        /\ Busy = {t, u}


(***************************************************************************)
(* C29: the life of a MountRecord                                          *)
(***************************************************************************)
\* t went through pfs_mountargs_find on r and has not put it back
Pinned(t, r) ==
    /\ th[t].mp = r
    /\ th[t].pc \notin {"idle", "find"}
    /\ th[t].op \notin FdOps \cup {"close", "mount"}

\* t holds the rwlock of r or is blocked on it
OnRwlock(t, r) ==
    \/ recs[r].wr = t
    \/ t \in recs[r].rd
    \/ th[t].mp = r /\ th[t].pc \in {"find_lock", "mp_rdlock"}

\* the counter is the list's reference plus one per caller of find
C29_RefCountExact ==
    \A r \in RecIds :
        recs[r].live =>
            recs[r].ref_count = (IF recs[r].on_list THEN 1 ELSE 0)
                                + Cardinality({t \in Threads : Pinned(t, r)})

\* no thread works on, holds the lock of or waits for a record that is freed
C29_NoUseAfterFree ==
    \A r \in RecIds : \A t \in Threads :
        (th[t].mp = r \/ OnRwlock(t, r)) => recs[r].live

\* a step that frees r: the counter goes to zero in that step (it is zero
\* already only for a record that was never registered), and nobody but the
\* thread that frees it has to do with r
C29_FreeStep ==
    \A r \in RecIds :
        (recs[r].live /\ ~recs'[r].live) =>
            /\ recs[r].ref_count \in {0, 1}
            /\ ~recs[r].on_list
            /\ recs[r].ref_count = 1 =>
                   Cardinality({t \in Threads : Pinned(t, r)}) = 1
            /\ recs[r].ref_count = 0 =>
                   \E t \in Threads : th[t].op = "mount" /\ th[t].mp = r
            /\ \A t \in Threads : ~OnRwlock(t, r) /\ th'[t].mp # r

\* C29: a MountRecord is freed once, exactly when ref_count reaches 0, and
\* never while a thread holds a reference to it, holds its rwlock or is
\* blocked on its rwlock
C29_FreedAtZero ==
    /\ [](C29_RefCountExact /\ C29_NoUseAfterFree)
    /\ [][C29_FreeStep]_vars


\* umount has returned 0 and its reference is gone; a find that lost the race
\* holds the last reference to the record, which is off the list
C29_Witness ==
    \E r \in RecIds :
        /\ recs[r].live /\ ~recs[r].on_list /\ recs[r].ref_count = 1
        /\ th["a2"].pc = "find_put" /\ th["a2"].mp = r
        /\ th["a1"].pc = "ret" /\ th["a1"].ret = 0
        /\ th["a1"].op \in {"umount", "umount_force"}

\* the record is gone: the find that began while it was on the list ends in
\* ENODEV after the umount
C29_WitnessFreed ==
    /\ \A r \in RecIds : ~recs[r].live
    /\ th["a1"].pc = "ret" /\ th["a1"].ret = 0
    /\ th["a1"].op \in {"umount", "umount_force"}
    /\ th["a2"].pc = "ret" /\ th["a2"].errno = "ENODEV"
    /\ th["a2"].op \in {"open", "unlink"} /\ ~th["a2"].g.unreg

\* a mount that failed has freed the record it never registered
C29_WitnessFailedMount ==
    /\ \A r \in RecIds : ~recs[r].live
    /\ th["a1"].pc = "ret" /\ th["a1"].op = "mount" /\ th["a1"].ret = -1
    /\ inprogress["p1"] = {}

\* a call on a descriptor waits for the rwlock of the mount that a umount
\* holds, without a reference of its own
C29_WitnessBorrowed ==
    \E r \in RecIds :
        /\ th["a2"].pc = "mp_rdlock" /\ th["a2"].mp = r
        /\ recs[r].wr = "a1" /\ th["a1"].pc = "um_caf"
        /\ recs[r].ref_count = 2


(***************************************************************************)
(* C30: pfs_mountargs_find against pfsd_umount                             *)
(***************************************************************************)
\* pfs_mountargs_find has returned r to t, which has not unlocked it yet
GotFromFind(t, r) ==
    Pinned(t, r) /\ th[t].pc \notin {"find_lock", "find_put", "put_ref"}

\* what find returned is on the list and locked in the mode asked for
C30_FoundOnList ==
    \A t \in Threads, r \in RecIds :
        GotFromFind(t, r) =>
            /\ recs[r].on_list
            /\ IF th[t].mode = "RD" THEN t \in recs[r].rd ELSE recs[r].wr = t

\* the ways out of pfs_mountargs_find: with the record when it is on the
\* list, through pfs_mountargs_put and "again" when it is not, with NULL
\* when the list has no such record
C30_FindStep ==
    \A t \in Threads :
        LET r == th[t].mp IN
        /\ (th[t].pc = "find_lock" /\ th'[t].pc # "find_lock") =>
               IF recs[r].on_list
               THEN th'[t].pc = AfterFind(th[t].op) /\ th'[t].mp = r
               ELSE th'[t].pc = "find_put" /\ recs' = recs
        /\ (th[t].pc = "find_put" /\ th'[t].pc # "find_put") =>
               /\ th'[t].pc = "find" /\ th'[t].mp = NoRec
               /\ recs[r].wr # t /\ t \notin recs[r].rd
               /\ \/ ~recs'[r].live
                  \/ recs'[r].ref_count = recs[r].ref_count - 1
        /\ (th[t].pc = "find" /\ th'[t].pc = "ret") =>
               /\ ListLookup(ProcOf(t), th[t].pbd) = NoRec
               /\ th'[t].errno = "ENODEV" /\ recs' = recs

\* the thread that takes a record off the list holds its write lock: nobody
\* else holds the lock then
C30_UnregisterStep ==
    \A r \in RecIds :
        (recs[r].on_list /\ ~recs'[r].on_list) =>
            /\ recs[r].rd = {}
            /\ recs[r].wr \in Threads
            /\ th[recs[r].wr].pc = "um_post" /\ th[recs[r].wr].mp = r
            /\ \A t \in Threads : GotFromFind(t, r) => t = recs[r].wr

\* C30: pfs_mountargs_find never returns a record that is off the list; in
\* a race with a umount it returns the registered record, locked as asked,
\* or drops its reference and ends with NULL; nobody unregisters a record
\* whose rwlock another caller of find holds
C30_FindNeverStale ==
    /\ []C30_FoundOnList
    /\ [][C30_FindStep /\ C30_UnregisterStep]_vars

\* the find lost the race: it got the lock of a record the umount, not yet
\* through its own put, has taken off the list
C30_Witness ==
    \E r \in RecIds :
        /\ th["a2"].pc = "find_put" /\ th["a2"].mp = r
        /\ ~recs[r].on_list /\ recs[r].ref_count = 2
        /\ th["a1"].pc = "put_ref" /\ th["a1"].mp = r /\ th["a1"].ret = 0

\* the find won the race: it holds the read lock the umount waits for
C30_WitnessWon ==
    \E r \in RecIds :
        /\ GotFromFind("a2", r) /\ "a2" \in recs[r].rd /\ recs[r].on_list
        /\ th["a1"].pc = "find_lock" /\ th["a1"].mp = r
        /\ th["a1"].op \in {"umount", "umount_force"}

\* after the race: NULL, which the caller reports as ENODEV
C30_WitnessNull ==
    /\ th["a2"].pc = "ret" /\ th["a2"].errno = "ENODEV"
    /\ ~th["a2"].g.unreg /\ th["a2"].op = "unlink"
    /\ th["a1"].op \in {"umount", "umount_force"} /\ th["a1"].pc = "put_ref"


(***************************************************************************)
(* C31: the life of a FileHandle                                           *)
(***************************************************************************)
\* t has taken a reference to f in pfsd_get_file and not put it yet
HoldsFileRef(t, f) ==
    /\ th[t].file = f
    /\ th[t].op \in FdOps \cup {"close"}
    /\ th[t].pc \notin {"idle", "ret", "get_file", "close_get"}

\* a step that frees f: the only reference there may be is that of the
\* pfsd_close that frees it
C31_FreeFileStep ==
    \A f \in FileIds :
        (files[f].live /\ ~files'[f].live) =>
            \A t \in Threads :
                HoldsFileRef(t, f) => th[t].pc = "close_file" /\ th'[t].pc = "ret"

\* C31: a FileHandle is freed only when no other thread holds a reference
\* to it, under pfsd_close, the fd operations and the failure path of
\* pfsd_open
C31_FreedUnreferenced ==
    /\ [](\A t \in Threads, f \in FileIds : HoldsFileRef(t, f) => files[f].live)
    /\ [][C31_FreeFileStep]_vars

\* a call on a descriptor holds a reference to a FileHandle that the failed
\* pfsd_open it belonged to has freed
C31_UseAfterFree ==
    \E t \in Threads, f \in FileIds :
        /\ HoldsFileRef(t, f) /\ ~files[f].live
        /\ \E u \in Threads \ {t} : th[u].op = "open" /\ th[u].ret = -1


(***************************************************************************)
(* C32: a pfsd_mount that fails                                            *)
(***************************************************************************)
\* the step in which the pfsd_mount of t returns -1 for another reason than
\* a PBD that is mounted or being mounted already
MountFails(t) ==
    /\ th[t].pc # "ret" /\ th'[t].pc = "ret"
    /\ th'[t].op = "mount" /\ th'[t].ret = -1
    /\ th'[t].note # "already mounted"

\* the name the failing call was made with
FailedPbd(t) == IF th[t].pc = "idle" THEN th'[t].pbd ELSE th[t].pbd

\* what the failing call leaves behind
C32_FailStep ==
    \A t \in Threads :
        MountFails(t) =>
            LET p == ProcOf(t)
                b == FailedPbd(t)
                r == th[t].mp
            IN
            /\ pfs_init_mtx'[p] # t
            /\ \A q \in SeqToSet(mount_list'[p]) : recs'[q].pbd_name # b
            /\ \A q \in inprogress'[p] : recs'[q].pbd_name # b
            /\ r # NoRec =>
                   /\ ~recs'[r].live
                   /\ r \notin inprogress'[p]
                   /\ kfd'[p][MetaFd(r)] = NoFile
                   /\ kfd'[p][HostidFd(r)] = NoFile
            /\ b \in PBDs => flk'[p][b] = {}

\* C32: a pfsd_mount that fails at the argument check, at the meta lock
\* (ETIMEDOUT), at the hostid lock or at the connect leaves none of its
\* fence-file locks held, the PBD neither registered nor in progress, the
\* record freed, and a later pfsd_mount of the PBD is not taken for a second
\* mount
C32_FailedMountClean == [][C32_FailStep]_vars


\* the hostid lock was refused: the call is back with EACCES, and its
\* process holds no lock on the fence file and no record of "A"
C32_Witness ==
    \E t \in Threads :
        /\ th[t].pc = "ret" /\ th[t].op = "mount" /\ th[t].ret = -1
        /\ th[t].errno = "EACCES"
        /\ flk[ProcOf(t)]["A"] = {}
        /\ ~pfs_mountargs_exists(ProcOf(t), "A")
        /\ ~pfs_mountargs_inprogress(ProcOf(t), "A")
        /\ \A r \in RecIds : recs[r].live => recs[r].proc # ProcOf(t)

\* the meta lock was not to be had in MetaLockAttempts attempts
C32_WitnessTimedOut ==
    \E t \in Threads :
        /\ th[t].pc = "ret" /\ th[t].op = "mount" /\ th[t].ret = -1
        /\ th[t].errno = "ETIMEDOUT"
        /\ flk[ProcOf(t)]["A"] = {}

\* the connect failed: the record that was in progress is gone
C32_WitnessConnect ==
    \E t \in Threads :
        /\ th[t].pc = "ret" /\ th[t].op = "mount" /\ th[t].ret = -1
        /\ th[t].errno = "0" /\ th[t].note # "already mounted"
        /\ inprogress[ProcOf(t)] = {} /\ mount_list[ProcOf(t)] = <<>>
        /\ \A r \in RecIds : recs[r].live => recs[r].proc # ProcOf(t)

\* the name was too long
C32_WitnessName ==
    \E t \in Threads :
        /\ th[t].pc = "ret" /\ th[t].op = "mount" /\ th[t].ret = -1
        /\ th[t].errno = "EINVAL" /\ th[t].pbd = LongPbd


(***************************************************************************)
(* C33: the writer with host id 0                                          *)
(***************************************************************************)
\* C33: while a mount made with WR and host id 0 is registered, with TOOL or
\* without, no other process has a mount of the same PBD made with WR,
\* whatever its host id
C33_HostZeroAlone ==
    \A r, q \in RecIds :
        (/\ Registered(r) /\ Registered(q)
         /\ recs[r].proc # recs[q].proc
         /\ recs[r].pbd_name = recs[q].pbd_name
         /\ "WR" \in recs[r].mflags /\ "WR" \in recs[q].mflags)
        => recs[r].host_id # 0

\* a tool mounted as host 0 holds the range of host DEFAULT_MAX_HOSTS + 2
\* and nothing else, next to the writer of another process
C33_ToolBesideWriter ==
    \E r, q \in RecIds :
        /\ Registered(r) /\ Registered(q) /\ recs[r].proc # recs[q].proc
        /\ recs[r].host_id = 0 /\ "TOOL" \in recs[r].mflags
        /\ "TOOL" \in recs[q].mflags /\ recs[q].host_id = 1
        /\ flk[recs[r].proc]["A"] = {Range(DEFAULT_MAX_HOSTS + 2)}
        /\ flk[recs[q].proc]["A"] = {Range(1)}

\* a writer without TOOL mounted as host 0 holds no lock at all once its
\* mount has returned, next to the writer of another process
C33_WriterUnfenced ==
    \E r, q \in RecIds :
        /\ Registered(r) /\ Registered(q) /\ recs[r].proc # recs[q].proc
        /\ recs[r].host_id = 0 /\ "TOOL" \notin recs[r].mflags
        /\ "WR" \in recs[r].mflags /\ "WR" \in recs[q].mflags
        /\ flk[recs[r].proc]["A"] = {}


(***************************************************************************)
(* C34: pfsd_readdir on a DIR whose mount is gone                          *)
(***************************************************************************)
\* the call of t began with the mount of its DIR unmounted and had to ask
\* the daemon for a page
LateReaddir(t) ==
    /\ ReaddirDone(t)
    /\ th[t].g.late /\ th[t].g.drained /\ th[t].g.next0 # 0

\* C34: once the mount of a DIR is unmounted, the next pfsd_readdir or
\* pfsd_readdir_r that needs a page from the daemon fails with ENODEV
C34_LateReaddirEnodev ==
    \A t \in Threads :
        LateReaddir(t) => ReaddirFailed(t) /\ th[t].errno = "ENODEV"

\* the call found no buffers on the closed connection: ENOMEM
C34_LateReaddirEnomem ==
    \E t \in Threads :
        /\ LateReaddir(t) /\ ReaddirFailed(t) /\ th[t].errno = "ENOMEM"
        /\ \A r \in RecIds : ~recs[r].live

\* the channel let the request through and answered ENODEV itself
C34_ChannelEnodev ==
    \E t \in Threads :
        LateReaddir(t) /\ ReaddirFailed(t) /\ th[t].errno = "ENODEV"


\* C35: in every reachable state every DIR has d_data_offset <=
\* d_data_size, whatever successful READDIR response the daemon sends, a
\* response of r_data_size 0 included
C35_OffsetWithinSize ==
    \A t \in Threads : th[t].dir.d_data_offset <= th[t].dir.d_data_size

\* a call has returned an entry from a response without one: the DIR is
\* left with d_data_offset past d_data_size
C35_EmptyPageHandedOut ==
    \E t \in Threads :
        /\ th[t].pc = "ret"
        /\ th[t].op \in {"readdir", "readdir_r"}
        /\ th[t].errno = "0"
        /\ th[t].dir.d_data_size = 0
        /\ th[t].dir.d_data_offset = 1
        /\ th[t].dir.g_got # <<>>
        /\ Len(th[t].dir.g_got) > Len(th[t].dir.g_delivered)


\* C36: pfsd_start returns -1 on options that sanity_check refuses, and a
\* pfsd_start that fails in the validation, at the pid file, in
\* pfsd_chnl_listen or in pthread_create leaves g_pfsd_started 0, the pid
\* file closed and the worker not signalled to run
C36_FailedStartStep ==
    \A t \in Threads :
        /\ \A opt \in Opts, env \in BOOLEAN, pidok \in BOOLEAN :
              StartEnter(t, opt, env, pidok) /\ sanity_check(opt) # 0 =>
                  th'[t].pc = "ret" /\ th'[t].ret = -1
        /\ ( /\ th[t].pc # "ret" /\ th'[t].pc = "ret"
             /\ th'[t].op = "pfsd_start" /\ th'[t].ret = -1
             /\ ~th'[t].g.rejected ) =>
                 /\ pfsd'.g_pfsd_started = 0
                 /\ pfsd'.g_pfsd_pidfile = -1
                 /\ pfsd'.worker # "running"

C36_FailedStartClean == [][C36_FailedStartStep]_vars

\* pfsd_start has returned -1 because pthread_create failed: the daemon is
\* not started, yet its worker has been posted and runs
C36_WorkerSignalled ==
    \E t \in Threads :
        /\ th[t].pc = "ret" /\ th[t].op = "pfsd_start" /\ th[t].ret = -1
        /\ ~th[t].g.rejected
        /\ pfsd.g_pfsd_started = 0
        /\ pfsd.g_pfsd_pidfile = -1
        /\ pfsd.worker = "running"
        /\ pfsd.main = "none"


\* a step of a mount without WR: pfs_mount_prepare on its read-only path,
\* the connect, the end of pfsd_sdk_init
ReadOnlyMountStep(t) ==
    \/ th[t].pc = "idle" /\ th'[t].pc = "mount_connect" /\ th'[t].op = "mount"
    \/ /\ th[t].op = "mount" /\ th[t].pc \in {"mount_connect", "mount_post"}
       /\ "WR" \notin th[t].flags
       /\ th'[t] # th[t]

\* C37: a mount without WR takes no lock on the fence file: it never enters
\* the lock attempts, none of its steps changes a descriptor or a lock, its
\* record holds no lock descriptor, and it fails only when the connect does,
\* whatever locks other mounts hold
C37_ReadOnlyStep ==
    \A t \in Threads :
        ReadOnlyMountStep(t) =>
            /\ kfd' = kfd
            /\ flk' = flk
            /\ "WR" \notin (IF th[t].pc = "idle" THEN th'[t].flags ELSE th[t].flags)
            /\ th'[t].pc = "ret" => th'[t].ret = IF th[t].conn > 0 THEN 0 ELSE -1

C37_ReadOnlyUnlocked ==
    /\ \A t \in Threads :
          th[t].pc \in {"mount_meta", "mount_hostid"} => "WR" \in th[t].flags
    /\ \A r \in RecIds :
          ( /\ recs[r].live /\ "WR" \notin recs[r].flags
            /\ recs[r].on_list \/ r \in inprogress[recs[r].proc] ) =>
              recs[r].meta_lock_fd = -1 /\ recs[r].hostid_lock_fd = -1

C37_ReadOnlyNoLock == []C37_ReadOnlyUnlocked /\ [][C37_ReadOnlyStep]_vars

\* two processes have mounted "A" read-only with the same hostid
C37_Witness ==
    \E r, q \in RecIds :
        /\ recs[r].live /\ recs[r].on_list /\ recs[q].live /\ recs[q].on_list
        /\ recs[r].proc # recs[q].proc
        /\ recs[r].pbd_name = recs[q].pbd_name
        /\ recs[r].host_id = recs[q].host_id
        /\ "WR" \notin recs[r].flags /\ "WR" \notin recs[q].flags

\* a read-only mount returns 0 while another process holds the writer lock
\* of the same hostid
C37_WitnessBesideWriter ==
    \E t \in Threads, r, q \in RecIds :
        /\ th[t].pc = "ret" /\ th[t].op = "mount" /\ th[t].ret = 0
        /\ recs[r].live /\ recs[r].on_list /\ recs[r].proc = ProcOf(t)
        /\ "WR" \notin recs[r].flags
        /\ recs[q].live /\ recs[q].proc # ProcOf(t)
        /\ recs[q].pbd_name = recs[r].pbd_name
        /\ recs[q].host_id = recs[r].host_id
        /\ "WR" \in recs[q].flags
        /\ recs[q].hostid_lock_fd >= 0
        /\ Range(recs[q].host_id) \in flk[recs[q].proc][recs[q].pbd_name]


C38_NoLiveSlotTaken ==
    \A p \in Procs : \A fd \in LiveFds(fdtbl[p]) \cap LiveFds(fdtbl'[p]) :
        fd_to_file(fdtbl'[p], fd) = fd_to_file(fdtbl[p], fd)

\* C38: in every reachable state of opens and closes each live descriptor
\* names one live file and no other descriptor names it, the free list
\* ends, repeats no slot and holds exactly the slots below the high-water
\* mark that are not live, and fdtbl_nopen counts the live slots; no step
\* gives a live slot to another file
C38_TableConsistent == []TableSound /\ [][C38_NoLiveSlotTaken]_vars

\* slots were closed out of order and one was given out again: the free
\* list still holds a slot between live ones
C38_Witness ==
    \E p \in Procs :
        /\ hist[p].peak = PFSD_MAX_NFD
        /\ fdtbl_free_last[p] >= 0
        /\ \E fd \in LiveFds(fdtbl[p]) : fd > fdtbl_free_last[p]
        /\ \E t \in Threads :
              /\ ProcOf(t) = p /\ Allocated(t) /\ th[t].pc = "ret"
              /\ th[t].ret >= 0 /\ th[t].g.freed # <<>>


\* a pfsd_close has gone through pfsd_close_file with a file that a failed
\* pfsd_open had freed under it: the table counts fewer open files than it
\* holds
C38_ClosedFreedFile ==
    \E t, u \in Threads :
        /\ t # u
        /\ th[t].op = "close" /\ th[t].pc = "ret" /\ th[t].ret = 0
        /\ th[u].op = "open" /\ th[u].ret = -1 /\ th[u].g.got = th[t].fd
        /\ fdtbl_nopen[ProcOf(t)] < Cardinality(LiveFds(fdtbl[ProcOf(t)]))


UmountOps == {"umount", "umount_force"}

\* the record but for its rwlock and its reference count
Unlocked(rec) == [rec EXCEPT !.wr = NoThread, !.rd = {}, !.ref_count = 0]

\* a step of a pfsd_umount or pfsd_umount_force of t that is not on the way
\* of a channel close that succeeded
UmountFailStep(t) ==
    /\ th[t].op \in UmountOps /\ th'[t] # th[t]
    /\ th[t].pc \in {"find", "find_lock", "um_close", "put_ref"}
    /\ th'[t].pc # "um_caf"
    /\ th[t].pc = "put_ref" => th[t].ret # 0

\* a step of a pfsd_umount or pfsd_umount_force of t behind a channel close
\* that succeeded
UmountDoneStep(t) ==
    /\ th[t].op \in UmountOps /\ th'[t] # th[t]
    /\ \/ th[t].pc = "um_close" /\ th'[t].pc = "um_caf"
       \/ th[t].pc \in {"um_caf", "um_post"}
       \/ th[t].pc = "put_ref" /\ th[t].ret = 0

C39_UmountStep ==
    \A t \in Threads :
        LET p == ProcOf(t)
            r == th[t].mp
        IN
        /\ UmountFailStep(t) =>
              /\ mount_list' = mount_list /\ inprogress' = inprogress
              /\ kfd' = kfd /\ flk' = flk
              /\ files' = files /\ fdtbl' = fdtbl
              /\ \A q \in RecIds : Unlocked(recs'[q]) = Unlocked(recs[q])
              /\ th[t].pc = "um_close" =>
                    th'[t].ret # 0 /\ recs'[r].on_list /\ recs'[r].live
              /\ th[t].pc = "put_ref" =>
                    th'[t].pc = "ret" /\ th'[t].ret = th[t].ret
        /\ UmountDoneStep(t) =>
              /\ \A q \in RecIds \ {r} : recs'[q] = recs[q]
              /\ \A f \in FileIds :
                    files[f].f_mp \notin {r, NoRec} => files'[f] = files[f]
              /\ \A q \in Procs \ {p} : kfd'[q] = kfd[q] /\ flk'[q] = flk[q]
              /\ \A b \in PBDs \ {recs[r].pbd_name} : flk'[p][b] = flk[p][b]
              /\ \A fd \in DOMAIN kfd[p] :
                    kfd[p][fd] # recs[r].pbd_name => kfd'[p][fd] = kfd[p][fd]
              /\ \A x \in SeqToSet(mount_list[p]) \ {r} :
                    x \in SeqToSet(mount_list'[p])
              /\ fdtbl' = fdtbl

\* the pfsd_umount or pfsd_umount_force of t is about to return the error of
\* the channel close: PUT_MOUNT's reference is all it still holds
UmountFailed(t) ==
    th[t].op \in UmountOps /\ th[t].pc = "put_ref" /\ th[t].ret # 0

\* a pfsd_umount or pfsd_umount_force that returns an error leaves its mount
\* on the list, and the files bound to a mount are bound to one on the list
\* and to its connection
C39_StillMounted ==
    /\ \A t \in Threads :
          UmountFailed(t) =>
              /\ recs[th[t].mp].live /\ recs[th[t].mp].on_list
              /\ recs[th[t].mp].pbd_name = th[t].pbd
              /\ th[t].mp \in SeqToSet(mount_list[ProcOf(t)])
    /\ \A f \in FileIds :
          files[f].live /\ files[f].f_mp # NoRec =>
              /\ recs[files[f].f_mp].live /\ recs[files[f].f_mp].on_list
              /\ files[f].f_conn_id = recs[files[f].f_mp].conn_id

\* C39: a pfsd_umount or pfsd_umount_force whose channel close fails returns
\* the error and leaves the list, the records but for lock and reference
\* count, the descriptors, the fence locks and the files as they were; one
\* whose channel close succeeds changes no other record, no file of another
\* mount, no lock on another PBD
C39_UmountLocal == []C39_StillMounted /\ [][C39_UmountStep]_vars

\* the umount of "A" has failed with "B" mounted and files open on both
C39_Witness ==
    \E t \in Threads, f, g \in FileIds :
        /\ UmountFailed(t)
        /\ th[t].pbd = "A"
        /\ files[f].live /\ files[g].live
        /\ files[f].f_mp # NoRec /\ recs[files[f].f_mp].pbd_name = "A"
        /\ files[g].f_mp # NoRec /\ recs[files[g].f_mp].pbd_name = "B"

\* the umount of "A" is through and a file of "B" is still bound, while
\* the file that was open on "A" is cut off
C39_WitnessOther ==
    \E t \in Threads, f, g \in FileIds :
        /\ th[t].pc = "put_ref" /\ th[t].op \in UmountOps /\ th[t].ret = 0
        /\ th[t].pbd = "A"
        /\ files[f].live /\ files[f].f_mp = NoRec /\ files[f].g_open
        /\ files[g].live /\ files[g].f_mp # NoRec
        /\ recs[files[g].f_mp].pbd_name = "B"
        /\ recs[files[g].f_mp].on_list

\* fstat on a descriptor of "A" returns 0 after the umount of "A" has failed
C39_WitnessUsable ==
    \E t, u \in Threads :
        /\ th[t].pc = "ret" /\ th[t].op = "umount_force" /\ th[t].ret # 0
        /\ th[u].pc = "ret" /\ th[u].op = "fstat" /\ th[u].ret = 0



(***************************************************************************)
(* C40: when a public operation returns, whatever it returns, the calling  *)
(* thread holds none of the registry mutex, a mount rwlock, a file rwlock, *)
(* an f_lseek_lock, the fd-table mutex and the chdir mutex and no channel  *)
(* buffer, and it has dropped its references: when no operation of a       *)
(* process is under way each of its registered mounts has ref_count 1 and  *)
(* each of its open files has f_refcnt 0.                                  *)
(***************************************************************************)
\* t is in no call
AtRest(t) == th[t].pc \in {"idle", "ret"}

\* t is between pfsd_chdir_begin and pfsd_chdir_end
HoldsChdir(t) == th[t].op = "chdir" /\ th[t].pc = "name_recv"

\* t holds none of the locks of the SDK and no channel buffer
HoldsNothing(t) ==
    /\ ~HoldsRegistry(t)
    /\ ~HoldsChdir(t)
    /\ ~HoldsTable(t)
    /\ \A r \in RecIds : ~HoldsMount(t, r)
    /\ \A f \in FileIds : ~HoldsFile(t, f) /\ files[f].f_lseek_lock # t
    /\ th[t].req = NoReq

\* no call of process p is under way
Quiescent(p) == \A t \in Threads : ProcOf(t) = p => AtRest(t)

\* the references of a process at rest
RefsDropped(p) ==
    /\ \A i \in 1..Len(mount_list[p]) : recs[mount_list[p][i]].ref_count = 1
    /\ \A fd \in LiveFds(fdtbl[p]) :
           files[fd_to_file(fdtbl[p], fd)].f_refcnt = 0

C40_Released ==
    /\ \A t \in Threads : AtRest(t) => HoldsNothing(t)
    /\ \A p \in Procs : Quiescent(p) => RefsDropped(p)

\* the same of the locks and buffers alone
C40_NothingHeld == \A t \in Threads : AtRest(t) => HoldsNothing(t)

\* a call on a descriptor has returned, no call of its process is under way,
\* and a file is open
C40_Witness ==
    \E t \in Threads :
        /\ th[t].pc = "ret" /\ th[t].op \in FdOps
        /\ Quiescent(ProcOf(t))
        /\ LiveFds(fdtbl[ProcOf(t)]) # {}

\* no call is under way and an open file is left with a reference count
\* other than 0
C40_ReferenceLeft ==
    \E p \in Procs :
        /\ Quiescent(p)
        /\ \E fd \in LiveFds(fdtbl[p]) :
               files[fd_to_file(fdtbl[p], fd)].f_refcnt # 0

====
